---- MODULE Spec2Model ----
(***************************************************************************)
(* Transport core of the LockLLM SDK: HttpClient.request (retry loop),     *)
(* HttpClient.makeRequest (one fetch with its timeout timer), the helpers  *)
(* parseRetryAfter / calculateBackoff / sleep, and the error mapper        *)
(* parseError.  One call of get/post/put/delete is followed from its start *)
(* to the moment its promise settles.  Durations are milliseconds.         *)
(***************************************************************************)
EXTENDS Integers, Sequences, FiniteSets, TLC

VARIABLES
  parse,             \* a call of parseError: its arguments and its result
  proxy,             \* a call of scan, buildLockLLMHeaders, parseProxyMetadata or a wrapper
  inputConfig,       \* the configuration object the caller passes to new LockLLM()
  sdk,               \* the LockLLM instance
  returned,          \* the object the latest getConfig() returned
  frames,            \* locals of request() and makeRequest() of each concurrent call
  calls,             \* position, wait and outcome of each concurrent call
  apiKey,            \* this.apiKey of the HttpClient
  optHeaders,        \* options.headers of the call
  maxRetries,        \* HttpClient.maxRetries
  timeout,           \* HttpClient.timeout (client-wide, ms)
  pc,                \* "idle" | "inflight" | "sleeping" | "returned" | "thrown"
  optSignal,         \* options.signal was supplied by the caller
  optTimeout,        \* options.timeout (optional number)
  idCounter,         \* number of identifiers generateRequestId has produced
  requestId,         \* const requestId of request()
  attempt,           \* loop variable of request()
  lastError,         \* let lastError of request()
  fetches,           \* number of fetch() calls issued by this call
  sentHeaders,       \* headers of the latest fetch
  fetchSignal,       \* "user" | "controller": the signal handed to fetch
  elapsed,           \* time the current attempt has been in flight (0 when none is)
  timerPending,      \* the setTimeout of makeRequest is armed
  timerMs,           \* its duration
  timerAge,          \* time since it was armed (0 when it is not)
  controllerAborted, \* the AbortController of the current makeRequest fired
  userAborted,       \* the caller's signal is aborted
  lastEvent,         \* what ended the latest attempt
  lastStatus,        \* status of the response to the latest fetch (0: none yet)
  lastRetryAfter,    \* Retry-After header of that response
  lastXRequestId,    \* X-Request-Id header of that response
  lastBody,          \* body of that response
  lastFailure,       \* the error the latest fetch rejected with
  delay,             \* argument of the current sleep() (0 when not asleep)
  sleepLeft,         \* time left on the current sleep's timer
  sleepCause,        \* why the call slept last: "429" | "error" | "none"
  sleptAfterAbort,   \* the call stayed asleep for a tick after the caller aborted
  outcome            \* settled value of the call's promise

vars == << parse, proxy, inputConfig, sdk, returned, frames, calls, apiKey, optHeaders, maxRetries, timeout, pc, optSignal, optTimeout, idCounter, requestId,
           attempt, lastError, fetches, sentHeaders, fetchSignal, elapsed,
           timerPending, timerMs, timerAge, controllerAborted, userAborted, lastEvent, lastStatus, lastRetryAfter, lastXRequestId,
           lastBody, lastFailure, delay, sleepLeft, sleepCause, sleptAfterAbort, outcome >>

\* The variables of the LockLLM client
clientVars == << inputConfig, sdk, returned >>

----------------------------------------------------------------------------
(* Bounds of the model *)

MaxRetriesBound == 6      \* largest maxRetries explored
MaxElapsed == 4000        \* longest time an attempt is followed in flight
TickMs == 1000            \* largest step of time while an attempt is in flight

(* Program constants *)

DEFAULT_TIMEOUT == 60000
DEFAULT_MAX_RETRIES == 3
DefaultBaseDelay == 1000
MaxBackoff == 30000

----------------------------------------------------------------------------
(* Optional values: undefined / null, or a number *)

None == [def |-> FALSE, v |-> 0]
Some(n) == [def |-> TRUE, v |-> n]

\* JavaScript truthiness of an optional number (undefined and 0 are falsy)
Truthy(o) == o.def /\ o.v # 0

\* a || b on optional numbers
OrElse(o, b) == IF Truthy(o) THEN o.v ELSE b

NullStr == "<null>"
UndefStr == "<undefined>"

\* a || b on strings (null, undefined and '' are falsy)
StrOrElse(s, b) == IF s = NullStr \/ s = UndefStr \/ s = "" THEN b ELSE s

Min(a, b) == IF a < b THEN a ELSE b
Max(a, b) == IF a > b THEN a ELSE b

RECURSIVE Pow2(_)
Pow2(n) == IF n = 0 THEN 1 ELSE 2 * Pow2(n - 1)

----------------------------------------------------------------------------
(* utils.ts helpers *)

generateRequestId(n) == "req_" \o ToString(n)

\* Retry-After header values: absent, empty, integer seconds, an HTTP date
\* (given by its distance from Date.now()), or unparseable text
RetryAfterHeaders ==
  { [kind |-> "null", n |-> 0], [kind |-> "garbage", n |-> 0] }
    \cup { [kind |-> "seconds", n |-> s] : s \in {-1, 0, 2} }
    \cup { [kind |-> "date", n |-> d] : d \in {-3000, 3000} }

parseRetryAfter(h) ==
  CASE h.kind = "null" -> None
    [] h.kind = "seconds" -> Some(h.n * 1000)
    [] h.kind = "date" -> Some(Max(0, h.n))
    [] OTHER -> None

\* baseDelay * 2^attempt without the 30 s cap
calculateBackoffUncapped(att) == DefaultBaseDelay * Pow2(att)

calculateBackoff(att) == Min(DefaultBaseDelay * Pow2(att), MaxBackoff)

----------------------------------------------------------------------------
(* errors.ts: error values *)

\* An error value.  class: the constructor; typed: instanceof LockLLMError;
\* name: error.name; cause: the class and message of the wrapped error;
\* payload: scanResult, violated_policies or abuse_details of the variants
\* that carry one; current_balance, estimated_cost: those of
\* InsufficientCreditsError.
MkError(class, typed, name, message, type, code, status, rid, retryAfter, cause) ==
  [ class |-> class, typed |-> typed, name |-> name, message |-> message,
    type |-> type, code |-> code, status |-> status, requestId |-> rid,
    retryAfter |-> retryAfter, cause |-> cause, payload |-> UndefStr,
    current_balance |-> None, estimated_cost |-> None ]

NoCause == << "none", UndefStr >>
NoError == MkError("none", FALSE, UndefStr, UndefStr, UndefStr, UndefStr, None,
                   UndefStr, None, NoCause)

\* Errors raised by the platform (fetch, response.json)
RawError(class, name, message) ==
  MkError(class, FALSE, name, message, UndefStr, UndefStr, None, UndefStr, None, NoCause)

LockLLMError(message, type, code, status, rid) ==
  MkError("LockLLMError", TRUE, "LockLLMError", message, type, code, status, rid,
          None, NoCause)

AuthenticationError(message, rid) ==
  MkError("AuthenticationError", TRUE, "AuthenticationError", message,
          "authentication_error", "unauthorized", Some(401), rid, None, NoCause)

RateLimitError(message, retryAfter, rid) ==
  MkError("RateLimitError", TRUE, "RateLimitError", message,
          "rate_limit_error", "rate_limited", Some(429), rid, retryAfter, NoCause)

\* The error with the payload of its variant
Carrying(err, payload) == [ err EXCEPT !.payload = payload ]

PromptInjectionError(message, rid) ==
  MkError("PromptInjectionError", TRUE, "PromptInjectionError", message,
          "lockllm_security_error", "prompt_injection_detected", Some(400), rid,
          None, NoCause)

UpstreamError(message, rid) ==
  MkError("UpstreamError", TRUE, "UpstreamError", message,
          "upstream_error", "provider_error", Some(502), rid, None, NoCause)

ConfigurationError(message) ==
  MkError("ConfigurationError", TRUE, "ConfigurationError", message,
          "configuration_error", "invalid_config", Some(400), UndefStr, None, NoCause)

PolicyViolationError(message, rid) ==
  MkError("PolicyViolationError", TRUE, "PolicyViolationError", message,
          "lockllm_policy_error", "policy_violation", Some(403), rid, None, NoCause)

AbuseDetectedError(message, rid) ==
  MkError("AbuseDetectedError", TRUE, "AbuseDetectedError", message,
          "lockllm_abuse_error", "abuse_detected", Some(400), rid, None, NoCause)

InsufficientCreditsError(message, rid, balance, cost) ==
  [ MkError("InsufficientCreditsError", TRUE, "InsufficientCreditsError", message,
            "lockllm_balance_error", "insufficient_credits", Some(402), rid,
            None, NoCause)
      EXCEPT !.current_balance = Some(balance), !.estimated_cost = Some(cost) ]

\* lastError is undefined when the loop body never ran
NetworkError(lastErr, rid) ==
  MkError("NetworkError", TRUE, "NetworkError",
          IF lastErr.class = "none" \/ lastErr.message = UndefStr \/ lastErr.message = ""
            THEN "Network request failed" ELSE lastErr.message,
          "network_error", "connection_failed", Some(0), rid, None,
          << lastErr.class, lastErr.message >>)

----------------------------------------------------------------------------
(* errors.ts: parseError *)

\* A decoded response body: undecodable, an object without an `error` key,
\* or an object whose `error` key holds the envelope e.
InvalidJson == [kind |-> "invalid"]
PlainObject == [kind |-> "object"]
Envelope(code, type, message, rid, scan, pol, abuse) ==
  [ kind |-> "envelope", code |-> code, type |-> type, message |-> message,
    request_id |-> rid, scan_result |-> scan, violated_policies |-> pol,
    abuse_details |-> abuse, pii_details |-> UndefStr, current_balance |-> None,
    estimated_cost |-> None ]

\* The envelope e with a pii_details payload and balance fields
WithExtras(e, pii, balance, cost) ==
  [ e EXCEPT !.pii_details = pii, !.current_balance = balance,
             !.estimated_cost = cost ]

Present(x) == x # UndefStr /\ x # NullStr /\ x # ""

parseError(body, rid) ==
  IF body.kind # "envelope"
    THEN LockLLMError("Unknown error occurred", "unknown_error", UndefStr, None, rid)
  ELSE IF body.code = "prompt_injection_detected" /\ Present(body.scan_result)
    THEN Carrying(PromptInjectionError(body.message, StrOrElse(body.request_id, rid)),
                  body.scan_result)
  ELSE IF body.code = "policy_violation" /\ Present(body.violated_policies)
    THEN Carrying(PolicyViolationError(body.message, StrOrElse(body.request_id, rid)),
                  body.violated_policies)
  ELSE IF body.code = "abuse_detected" /\ Present(body.abuse_details)
    THEN Carrying(AbuseDetectedError(body.message, StrOrElse(body.request_id, rid)),
                  body.abuse_details)
  ELSE IF body.code = "insufficient_credits"
    THEN InsufficientCreditsError(body.message, StrOrElse(body.request_id, rid),
                                  OrElse(body.current_balance, 0),
                                  OrElse(body.estimated_cost, 0))
  ELSE IF body.type = "authentication_error" \/ body.code = "unauthorized"
    THEN AuthenticationError(body.message, rid)
  ELSE IF body.type = "rate_limit_error" \/ body.code = "rate_limited"
    THEN RateLimitError(body.message, None, rid)
  ELSE IF body.type = "upstream_error" \/ body.code = "provider_error"
    THEN UpstreamError(body.message, rid)
  ELSE IF body.type = "configuration_error" \/ body.type = "lockllm_config_error"
          \/ body.code = "no_upstream_key"
    THEN ConfigurationError(body.message)
  ELSE LockLLMError(IF Present(body.message) THEN body.message ELSE "An error occurred",
                    IF Present(body.type) THEN body.type ELSE "unknown_error",
                    body.code, None, rid)

\* Arguments of a parseError call: every combination of the codes and types
\* the mapper and its tests name, with and without each payload
ParseCodes ==
  { UndefStr, "prompt_injection_detected", "policy_violation", "abuse_detected",
    "pii_detected", "insufficient_credits", "no_balance", "balance_check_failed",
    "credits_unavailable", "invalid_provider_for_credits_mode",
    "insufficient_routing_credits", "unauthorized", "rate_limited",
    "provider_error", "no_upstream_key", "no_byok_key", "unknown_code" }
ParseTypes ==
  { UndefStr, "authentication_error", "rate_limit_error", "upstream_error",
    "configuration_error", "lockllm_config_error", "lockllm_pii_error" }
ParseMessages == { UndefStr, "message" }
EnvelopeRequestIds == { UndefStr, "req_envelope" }
CallerRequestIds == { UndefStr, "req_fallback" }
ScanResults == { UndefStr, "scan_result" }
ViolatedPolicies == { UndefStr, "violated_policies" }
AbuseDetails == { UndefStr, "abuse_details" }
PiiDetails == { UndefStr, "pii_details" }
Balances == { << None, None >>, << Some(0), Some(1) >>, << Some(15), Some(50) >> }

ParseEnvelopes ==
  { WithExtras(Envelope(code, type, message, rid, scan, pol, abuse),
               pii, bal[1], bal[2]) :
      code \in ParseCodes, type \in ParseTypes, message \in ParseMessages,
      rid \in EnvelopeRequestIds, scan \in ScanResults, pol \in ViolatedPolicies,
      abuse \in AbuseDetails, pii \in PiiDetails, bal \in Balances }

\* A parseError call: its arguments, whether it has returned, its result
ParseCall(body, rid, done, result) ==
  [ body |-> body, rid |-> rid, done |-> done, result |-> result ]
NoParse == ParseCall(PlainObject, UndefStr, FALSE, NoError)

----------------------------------------------------------------------------
(* Inputs *)

ConfigMaxRetries == { -1, 0, 1, DEFAULT_MAX_RETRIES, MaxRetriesBound }
ConfigTimeouts == { None, Some(3000) }       \* timeout argument of the constructor
OptionTimeouts == { None, Some(2000) }

Statuses == { 200, 400, 429, 500 }
XRequestIdHeaders == { NullStr, "srv_1" }

\* response.ok
Ok(status) == status >= 200 /\ status <= 299

SuccessBodies == { InvalidJson, PlainObject }

RateLimitBodies ==
  { InvalidJson, PlainObject,
    Envelope("rate_limited", "rate_limit_error", "Too many requests", UndefStr,
             UndefStr, UndefStr, UndefStr),
    Envelope("rate_limited", "rate_limit_error", UndefStr, "env_1",
             UndefStr, UndefStr, UndefStr) }

ErrorBodies ==
  { InvalidJson, PlainObject,
    Envelope("prompt_injection_detected", "lockllm_security_error", "blocked", "env_1",
             "scan", UndefStr, UndefStr),
    Envelope("prompt_injection_detected", "rate_limit_error", "slow down", UndefStr,
             UndefStr, UndefStr, UndefStr),
    Envelope("policy_violation", "lockllm_policy_error", "policy", UndefStr,
             UndefStr, "policies", UndefStr),
    Envelope("abuse_detected", "lockllm_abuse_error", "abuse", UndefStr,
             UndefStr, UndefStr, "details"),
    Envelope("insufficient_credits", "lockllm_balance_error", "credits", UndefStr,
             UndefStr, UndefStr, UndefStr),
    Envelope("unauthorized", "authentication_error", "bad key", UndefStr,
             UndefStr, UndefStr, UndefStr),
    Envelope("rate_limited", UndefStr, "slow down", UndefStr,
             UndefStr, UndefStr, UndefStr),
    Envelope(UndefStr, "rate_limit_error", "slow down", "env_1",
             UndefStr, UndefStr, UndefStr),
    Envelope("provider_error", "upstream_error", "upstream", UndefStr,
             UndefStr, UndefStr, UndefStr),
    Envelope("no_upstream_key", "lockllm_config_error", "no key", UndefStr,
             UndefStr, UndefStr, UndefStr),
    Envelope("not_found", "invalid_request_error", UndefStr, UndefStr,
             UndefStr, UndefStr, UndefStr) }

BodiesFor(status) ==
  IF Ok(status) THEN SuccessBodies
  ELSE IF status = 429 THEN RateLimitBodies
  ELSE ErrorBodies

\* The Retry-After header is read on 429 responses only
RetryAfterFor(status) ==
  IF status = 429 THEN RetryAfterHeaders ELSE { [kind |-> "null", n |-> 0] }

\* Errors fetch() rejects with when the network fails
NetworkFailures ==
  { RawError("TypeError", "TypeError", "fetch failed"),
    RawError("TypeError", "TypeError", "Load failed") }

AbortError == RawError("DOMException", "AbortError", "This operation was aborted")
SyntaxError == RawError("SyntaxError", "SyntaxError", "Unexpected token < in JSON")

\* error.message.includes('fetch') over the messages above
IncludesFetch(m) == m \in { "fetch failed", "Failed to fetch" }

----------------------------------------------------------------------------
(* utils.ts: HttpClient.request, one loop iteration *)

\* What an iteration does next: return a result, sleep and continue, or
\* raise an error (inside the try) / throw it out of request().
Step(do, err, data, rid, ms, cause) ==
  [ do |-> do, err |-> err, data |-> data, requestId |-> rid, delay |-> ms,
    cause |-> cause ]

\* for (...; ...; attempt++) with the increment lost
NextAttemptStuck(att) == att

\* for (...; ...; attempt++)
NextAttempt(att) == att + 1

\* A loop that tests its condition after the first iteration only
LoopConditionAfterFirst(att, maxR) == att = 0 \/ att <= maxR

\* for (...; attempt <= this.maxRetries; ...)
LoopCondition(att, maxR) == att <= maxR

\* if (attempt < this.maxRetries)
AttemptsRemain(att, maxR) == att < maxR

\* A result identifier that ignores the response's header
ResponseRequestIdLocal(xrid, rid) == rid

\* response.headers.get('X-Request-Id') || requestId
ResponseRequestId(xrid, rid) == StrOrElse(xrid, rid)

\* const delay = retryAfter || calculateBackoff(attempt)
RateLimitDelay(retryAfter, att) == OrElse(retryAfter, calculateBackoff(att))

\* errorData.error?.message || 'Rate limit exceeded'
RateLimitMessage(body) ==
  IF body.kind = "envelope" /\ Present(body.message)
    THEN body.message ELSE "Rate limit exceeded"

\* response.json().catch(() => ({}))
ErrorData(body) == IF body.kind = "invalid" THEN PlainObject ELSE body

\* error instanceof LockLLMError, without the RateLimitError exception
RethrowEveryTyped(e) == e.typed

\* error instanceof LockLLMError && !(error instanceof RateLimitError)
RethrowImmediately(e) == e.typed /\ e.class # "RateLimitError"

\* isRetryableError without the AbortError case
isRetryableErrorNoAbort(e) ==
  \/ e.class = "TypeError" /\ IncludesFetch(e.message)
  \/ e.class = "RateLimitError"

isRetryableError(e) ==
  \/ e.class = "TypeError" /\ IncludesFetch(e.message)
  \/ e.name = "AbortError"
  \/ e.class = "RateLimitError"

\* The same error built without the parsed Retry-After
ExhaustedRateLimitNoRetryAfter(body, retryAfter, rrid) ==
  RateLimitError(RateLimitMessage(body), None, rrid)

\* The rate-limit error raised when a 429 arrives on the last attempt
ExhaustedRateLimit(body, retryAfter, rrid) ==
  RateLimitError(RateLimitMessage(body), retryAfter, rrid)

\* The error thrown after the loop, without the NetworkError wrapping
AfterLoopRaw(lastErr, rid) == lastErr

\* The error thrown after the loop
AfterLoop(lastErr, rid) ==
  IF lastErr.typed THEN lastErr ELSE NetworkError(lastErr, rid)

\* Body of the try block once fetch has resolved with a response
TryBody(status, xrid, retryAfterHeader, body, att, maxR, rid) ==
  LET rrid == ResponseRequestId(xrid, rid)
      retryAfter == parseRetryAfter(retryAfterHeader)
  IN  IF Ok(status)
        THEN IF body.kind = "invalid"
               THEN Step("raise", SyntaxError, body, rrid, 0, "none")
               ELSE Step("return", NoError, body, rrid, 0, "none")
      ELSE IF status = 429
        THEN IF AttemptsRemain(att, maxR)
               THEN Step("sleep", NoError, body, rrid,
                         RateLimitDelay(retryAfter, att), "429")
               ELSE Step("raise", ExhaustedRateLimit(body, retryAfter, rrid),
                         body, rrid, 0, "none")
      ELSE Step("raise", parseError(ErrorData(body), rrid), body, rrid, 0, "none")

\* A catch block that retries whatever was caught while attempts remain
CatchRetriesAny(e, att, maxR, rid) ==
  IF RethrowImmediately(e)
    THEN Step("throw", e, PlainObject, rid, 0, "none")
  ELSE IF AttemptsRemain(att, maxR)
    THEN Step("sleep", e, PlainObject, rid, calculateBackoff(att), "error")
  ELSE Step("break", e, PlainObject, rid, 0, "none")

\* The catch block
Catch(e, att, maxR, rid) ==
  IF RethrowImmediately(e)
    THEN Step("throw", e, PlainObject, rid, 0, "none")
  ELSE IF AttemptsRemain(att, maxR) /\ isRetryableError(e)
    THEN Step("sleep", e, PlainObject, rid, calculateBackoff(att), "error")
  ELSE Step("break", e, PlainObject, rid, 0, "none")

\* A lastError slot that keeps the first error it was given
LastErrorKeepsFirst(e, old) ==
  IF RethrowImmediately(e) \/ old # NoError THEN old ELSE e

\* lastError = error, unless the error was rethrown at once
LastErrorAfter(e, old) == IF RethrowImmediately(e) THEN old ELSE e

Iteration(status, xrid, retryAfterHeader, body, att, maxR, rid) ==
  LET t == TryBody(status, xrid, retryAfterHeader, body, att, maxR, rid)
  IN  IF t.do = "raise" THEN Catch(t.err, att, maxR, rid) ELSE t

----------------------------------------------------------------------------
(* utils.ts: HttpClient.makeRequest *)

\* const timeoutMs = this.timeout, the per-call override ignored
TimeoutMsClientOnly(optT, clientT) == clientT

\* const timeoutMs = options?.timeout || this.timeout
TimeoutMs(optT, clientT) == OrElse(optT, clientT)

\* Header objects: functions from header names to values
EmptyHeaders == [ k \in {} |-> "" ]

\* { ...a, ...b }: object spread, a later key replaces an earlier one
Spread(a, b) ==
  [ k \in (DOMAIN a) \cup (DOMAIN b) |-> IF k \in DOMAIN b THEN b[k] ELSE a[k] ]

\* The API keys a client is configured with
DefaultApiKey == "key_a"
ApiKeys == { DefaultApiKey, "key_b" }

\* options.headers: absent, a header of the caller's own, or a header whose
\* name the client also sets
CallerHeaders ==
  { EmptyHeaders,
    [ k \in { "X-Custom" } |-> "custom" ],
    [ k \in { "Authorization" } |-> "Bearer caller_token" ],
    [ k \in { "X-Request-Id" } |-> "caller_id" ] }

\* Retry ceilings explored together with caller headers
HeaderRunMaxRetries == { 0, 1, 2 }

\* Client headers whose X-Request-Id is not the identifier of the call
ClientHeadersNoRequestId(key, rid) ==
  [ k \in { "Content-Type", "Authorization", "X-Request-Id" } |->
      CASE k = "Content-Type" -> "application/json"
        [] k = "Authorization" -> "Bearer " \o key
        [] OTHER -> UndefStr ]

\* The client's own headers of an attempt
ClientHeaders(key, rid) ==
  [ k \in { "Content-Type", "Authorization", "X-Request-Id" } |->
      CASE k = "Content-Type" -> "application/json"
        [] k = "Authorization" -> "Bearer " \o key
        [] OTHER -> rid ]

\* Headers in which the client's values replace the caller's
RequestHeadersClientLast(key, rid, callerHeaders) ==
  Spread(callerHeaders, ClientHeaders(key, rid))

\* const headers = { 'Content-Type', Authorization, 'X-Request-Id',
\* ...options?.headers }
RequestHeaders(key, rid, callerHeaders) ==
  Spread(ClientHeaders(key, rid), callerHeaders)

\* The value of header name in headers h, "<undefined>" when it has none
HeaderValue(h, name) == IF name \in DOMAIN h THEN h[name] ELSE UndefStr

\* const signal = options?.signal || controller.signal
SignalFor(hasUserSignal) == IF hasUserSignal THEN "user" ELSE "controller"

\* The signal handed to fetch is aborted
SignalAborted ==
  \/ fetchSignal = "user" /\ userAborted
  \/ fetchSignal = "controller" /\ controllerAborted

TimerDue == timerPending /\ timerAge >= timerMs

NoOutcome == [ kind |-> "none", data |-> PlainObject, requestId |-> UndefStr,
               err |-> NoError ]
Returned(data, rid) == [ kind |-> "ok", data |-> data, requestId |-> rid,
                         err |-> NoError ]
Thrown(e) == [ kind |-> "error", data |-> PlainObject, requestId |-> UndefStr,
               err |-> e ]

\* How far time moves in one step while an attempt is in flight: up to the
\* moment the pending timer is due, and no more than TickMs
FlightStep ==
  IF timerPending /\ timerAge < timerMs THEN Min(TickMs, timerMs - timerAge) ELSE TickMs

\* How far time moves in one step while the call sleeps: each wait is seen
\* at its start, half way and at its end
SleepStep(ms) == Max(TickMs, ms \div 2)

NoHeader == [kind |-> "null", n |-> 0]

\* A sleep that also ends when the caller's signal is aborted
SleepResolvedOrAborted == sleepLeft = 0 \/ userAborted

\* sleep(ms): new Promise((resolve) => setTimeout(resolve, ms)) resolves when
\* its timer has run out, and on nothing else
SleepResolved == sleepLeft = 0

\* new AbortController, setTimeout, header construction and fetch()
MakeRequest(rid, hasUserSignal, optT) ==
  /\ pc' = "inflight"
  /\ controllerAborted' = FALSE
  /\ timerMs' = TimeoutMs(optT, timeout)
  /\ timerPending' = TRUE
  /\ timerAge' = 0
  /\ sentHeaders' = RequestHeaders(apiKey, rid, optHeaders)
  /\ fetchSignal' = SignalFor(hasUserSignal)
  /\ fetches' = fetches + 1
  /\ elapsed' = 0
  /\ lastEvent' = "none"
  /\ lastStatus' = 0
  /\ lastRetryAfter' = NoHeader
  /\ lastXRequestId' = NullStr
  /\ lastBody' = PlainObject
  /\ lastFailure' = NoError

\* A makeRequest whose finally block does not clear its timer
EndRequestLeavesTimer ==
  /\ timerPending' = timerPending
  /\ timerAge' = timerAge
  /\ controllerAborted' = FALSE
  /\ elapsed' = 0

\* makeRequest is over: finally { clearTimeout(timeoutId) }
EndRequest ==
  /\ timerPending' = FALSE
  /\ timerAge' = 0
  /\ controllerAborted' = FALSE
  /\ elapsed' = 0

\* request() settles or suspends according to step st
Continue(st) ==
  /\ pc' = CASE st.do = "return" -> "returned"
             [] st.do = "sleep" -> "sleeping"
             [] OTHER -> "thrown"
  /\ outcome' = CASE st.do = "return" -> Returned(st.data, st.requestId)
                  [] st.do = "sleep" -> outcome
                  [] st.do = "break" -> Thrown(AfterLoop(lastError', requestId))
                  [] OTHER -> Thrown(st.err)
  /\ delay' = IF st.do = "sleep" THEN st.delay ELSE delay
  /\ sleepLeft' = IF st.do = "sleep" THEN Max(0, st.delay) ELSE sleepLeft
  /\ sleepCause' = IF st.do = "sleep" THEN st.cause ELSE sleepCause

\* The loop is over without a return or a throw inside it
ThrowAfterLoop(lastErr, rid) ==
  /\ pc' = "thrown"
  /\ outcome' = Thrown(AfterLoop(lastErr, rid))
  /\ UNCHANGED << controllerAborted, timerMs, timerPending, timerAge, sentHeaders,
                  fetchSignal, fetches, elapsed, lastEvent, lastStatus,
                  lastRetryAfter, lastXRequestId, lastBody, lastFailure >>

----------------------------------------------------------------------------
(* State machine of one call *)

----------------------------------------------------------------------------
(* scan.ts, proxy-headers.ts, wrappers: the headers of a scan or proxy call *)

\* An optional boolean
NoBool == [def |-> FALSE, v |-> FALSE]
SomeBool(b) == [def |-> TRUE, v |-> b]

\* An optional header map (undefined, or an object)
NoHeaderMap == [def |-> FALSE, v |-> EmptyHeaders]
SomeHeaderMap(h) == [def |-> TRUE, v |-> h]

\* m || {} on an optional header map (every object is truthy)
MapOrEmpty(m) == IF m.def THEN m.v ELSE EmptyHeaders

\* JavaScript truthiness of a string-valued option
TruthyStr(s) == s # UndefStr /\ s # NullStr /\ s # ""

\* headers[name] = value
WithHeader(h, name, value) == Spread(h, [ k \in { name } |-> value ])

\* String(n) of a fraction given in tenths (String(0.4) is "0.4")
TenthsString(t) ==
  IF t % 10 = 0 THEN ToString(t \div 10)
  ELSE ToString(t \div 10) \o "." \o ToString(t % 10)

\* ScanRequest
ScanRequests ==
  [ input : { "", "Ignore previous instructions" },
    sensitivity : { UndefStr, "high" },
    mode : { UndefStr, "combined" },
    chunk : { NoBool, SomeBool(TRUE), SomeBool(FALSE) } ]

NoScanRequest ==
  [ input |-> "", sensitivity |-> UndefStr, mode |-> UndefStr, chunk |-> NoBool ]

\* options.headers of a scan call: absent, a header of the caller's own, or a
\* header under a name scan also uses
ScanCallerHeaders ==
  { NoHeaderMap,
    SomeHeaderMap([ k \in { "X-Custom" } |-> "custom" ]),
    SomeHeaderMap([ k \in { "x-lockllm-scan-mode" } |-> "normal" ]) }

\* ScanOptions; given = FALSE is a call without the options argument
NoScanOptions ==
  [ given |-> FALSE, scanAction |-> UndefStr, policyAction |-> UndefStr,
    abuseAction |-> UndefStr, piiAction |-> UndefStr,
    compressionAction |-> UndefStr, compressionRate |-> None,
    headers |-> NoHeaderMap, timeout |-> None, signal |-> FALSE ]

ScanOptionSets ==
  { NoScanOptions } \cup
  [ given : { TRUE },
    scanAction : { UndefStr, "block" },
    policyAction : { UndefStr, "allow_with_warning" },
    abuseAction : { UndefStr, NullStr, "block" },
    piiAction : { UndefStr, NullStr, "strip" },
    compressionAction : { UndefStr, NullStr, "compact" },
    compressionRate : { None, Some(3) },
    headers : ScanCallerHeaders,
    timeout : { None, Some(2000) },
    signal : BOOLEAN ]

\* A request body that still carries the fields that moved to headers
ScanBodyWithRequestFields(request) ==
  [ k \in { "input", "mode", "sensitivity" } |->
      CASE k = "input" -> request.input
        [] k = "mode" -> request.mode
        [] k = "sensitivity" -> request.sensitivity ]

\* const body = { input: request.input }
ScanBody(request) == [ k \in { "input" } |-> request.input ]

\* The headers scan() builds
ScanHeaders(request, options) ==
  LET h0 == MapOrEmpty(options.headers)
      h1 == IF TruthyStr(request.mode)
              THEN WithHeader(h0, "x-lockllm-scan-mode", request.mode) ELSE h0
      h2 == IF TruthyStr(request.sensitivity)
              THEN WithHeader(h1, "x-lockllm-sensitivity", request.sensitivity)
              ELSE h1
      h3 == IF request.chunk.def
              THEN WithHeader(h2, "x-lockllm-chunk",
                              IF request.chunk.v THEN "true" ELSE "false")
              ELSE h2
      h4 == IF TruthyStr(options.scanAction)
              THEN WithHeader(h3, "x-lockllm-scan-action", options.scanAction)
              ELSE h3
      h5 == IF TruthyStr(options.policyAction)
              THEN WithHeader(h4, "x-lockllm-policy-action", options.policyAction)
              ELSE h4
      h6 == IF options.abuseAction # UndefStr /\ options.abuseAction # NullStr
              THEN WithHeader(h5, "x-lockllm-abuse-action", options.abuseAction)
              ELSE h5
  IN  h6

\* The arguments of this.http.post
Posted(path, body, headers, tmo, signal) ==
  [ path |-> path, body |-> body, headers |-> headers, timeout |-> tmo,
    signal |-> signal ]

NoPosted == Posted("", ScanBody(NoScanRequest), EmptyHeaders, None, FALSE)

\* scan(request, options) up to the call of this.http.post
scan(request, options) ==
  Posted("/v1/scan", ScanBody(request), ScanHeaders(request, options),
         options.timeout, options.signal)

\* ProxyRequestOptions; given = FALSE is a call without the argument
NoProxyOptions ==
  [ given |-> FALSE, scanMode |-> UndefStr, scanAction |-> UndefStr,
    policyAction |-> UndefStr, abuseAction |-> UndefStr,
    routeAction |-> UndefStr, piiAction |-> UndefStr,
    cacheResponse |-> NoBool, cacheTTL |-> None,
    compressionAction |-> UndefStr, compressionRate |-> None,
    headers |-> NoHeaderMap ]

ProxyOptionSets ==
  { NoProxyOptions } \cup
  [ given : { TRUE },
    scanMode : { UndefStr, "combined" },
    scanAction : { UndefStr, "block" },
    policyAction : { UndefStr, "allow_with_warning" },
    abuseAction : { UndefStr, NullStr, "block" },
    routeAction : { UndefStr, "auto" },
    piiAction : { UndefStr, NullStr, "strip" },
    cacheResponse : { NoBool, SomeBool(TRUE), SomeBool(FALSE) },
    cacheTTL : { None, Some(0), Some(7200) },
    compressionAction : { UndefStr, NullStr, "compact" },
    compressionRate : { None, Some(4) },
    headers : { NoHeaderMap } ]

\* buildLockLLMHeaders(options)
buildLockLLMHeaders(options) ==
  LET h0 == EmptyHeaders
      h1 == IF TruthyStr(options.scanMode)
              THEN WithHeader(h0, "x-lockllm-scan-mode", options.scanMode) ELSE h0
      h2 == IF TruthyStr(options.scanAction)
              THEN WithHeader(h1, "x-lockllm-scan-action", options.scanAction)
              ELSE h1
      h3 == IF TruthyStr(options.policyAction)
              THEN WithHeader(h2, "x-lockllm-policy-action", options.policyAction)
              ELSE h2
      h4 == IF options.abuseAction # UndefStr /\ options.abuseAction # NullStr
              THEN WithHeader(h3, "x-lockllm-abuse-action", options.abuseAction)
              ELSE h3
      h5 == IF TruthyStr(options.routeAction)
              THEN WithHeader(h4, "x-lockllm-route-action", options.routeAction)
              ELSE h4
      h6 == IF options.cacheResponse.def /\ options.cacheResponse.v = FALSE
              THEN WithHeader(h5, "x-lockllm-cache-response", "false") ELSE h5
      h7 == IF options.cacheTTL.def
              THEN WithHeader(h6, "x-lockllm-cache-ttl", ToString(options.cacheTTL.v))
              ELSE h6
  IN  h7

\* The headers a caller of a wrapper passes: headers of its own, one of them
\* under a name proxyOptions.headers sets too, or a header under a name
\* buildLockLLMHeaders uses
WrapperDefaultHeaders ==
  { [ k \in { "X-Default-Header", "X-Override-Me" } |->
        IF k = "X-Default-Header" THEN "default-value" ELSE "original" ],
    [ k \in { "x-lockllm-scan-mode" } |-> "wrong-value" ] }

\* proxyOptions.headers
WrapperProxyHeaders ==
  { NoHeaderMap,
    SomeHeaderMap([ k \in { "X-Proxy-Header", "X-Override-Me" } |->
                      IF k = "X-Proxy-Header" THEN "proxy-value" ELSE "overridden" ]),
    SomeHeaderMap([ k \in { "x-lockllm-policy-action" } |-> "block" ]) }

\* proxyOptions of a wrapper configuration
WrapperProxyOptions ==
  { NoProxyOptions } \cup
  { [ NoProxyOptions EXCEPT !.given = TRUE, !.scanMode = m, !.policyAction = p,
                            !.headers = h ] :
      m \in { UndefStr, "combined" }, p \in { UndefStr, "allow_with_warning" },
      h \in WrapperProxyHeaders }

\* What is left of the configuration after apiKey, baseURL and proxyOptions
\* are taken out: the caller's defaultHeaders and maxRetries, each optional
OtherOptionSets ==
  { [ k \in {} |-> 0 ], [ k \in { "maxRetries" } |-> 5 ] }
    \cup { [ k \in { "defaultHeaders" } |-> h ] : h \in WrapperDefaultHeaders }
    \cup { [ k \in { "defaultHeaders", "maxRetries" } |->
               IF k = "defaultHeaders" THEN h ELSE 5 ] : h \in WrapperDefaultHeaders }

\* The configuration passed to createAnthropic, createOpenAI or createClient
WrapperConfigs ==
  [ apiKey : { "key_a" },
    baseURL : { UndefStr, "https://proxy.example.test" },
    proxyOptions : WrapperProxyOptions,
    otherOptions : OtherOptionSets ]

NoWrapperConfig ==
  [ apiKey |-> "", baseURL |-> UndefStr, proxyOptions |-> NoProxyOptions,
    otherOptions |-> [ k \in {} |-> 0 ] ]

LOCKLLM_PROXY_BASE == "https://api.lockllm.com/v1/proxy"

\* getProxyURL(provider)
getProxyURL(provider) == LOCKLLM_PROXY_BASE \o "/" \o provider

\* The providers createClient is called for
Providers == { "mistral", "groq" }

\* otherOptions.defaultHeaders || {}
DefaultHeadersOf(otherOptions) ==
  IF "defaultHeaders" \in DOMAIN otherOptions
    THEN otherOptions["defaultHeaders"] ELSE EmptyHeaders

\* { ...defaultHeaders, ...lockllmHeaders, ...(proxyOptions?.headers || {}) }
MergedHeaders(config) ==
  Spread(Spread(DefaultHeadersOf(config.otherOptions),
                buildLockLLMHeaders(config.proxyOptions)),
         MapOrEmpty(config.proxyOptions.headers))

\* The object handed to the SDK constructor:
\* { apiKey, baseURL: baseURL || dflt, defaultHeaders: mergedHeaders, ...otherOptions }
ConstructorConfig(config, defaultBaseURL) ==
  Spread([ k \in { "apiKey", "baseURL", "defaultHeaders" } |->
             CASE k = "apiKey" -> config.apiKey
               [] k = "baseURL" -> StrOrElse(config.baseURL, defaultBaseURL)
               [] k = "defaultHeaders" -> MergedHeaders(config) ],
         config.otherOptions)

NoConstructorConfig == [ k \in {} |-> 0 ]

createAnthropic(config) ==
  ConstructorConfig(config, "https://api.lockllm.com/v1/proxy/anthropic")

createOpenAI(config) ==
  ConstructorConfig(config, "https://api.lockllm.com/v1/proxy/openai")

createClient(provider, config) == ConstructorConfig(config, getProxyURL(provider))

\* The response headers parseProxyMetadata looks up, in three spellings
ResponseHeaderNames ==
  { [ lower |-> "x-request-id", upper |-> "X-REQUEST-ID", mixed |-> "X-Request-Id" ],
    [ lower |-> "x-lockllm-scanned", upper |-> "X-LOCKLLM-SCANNED",
      mixed |-> "X-LockLLM-Scanned" ],
    [ lower |-> "x-lockllm-safe", upper |-> "X-LOCKLLM-SAFE",
      mixed |-> "X-LockLLM-Safe" ],
    [ lower |-> "x-scan-mode", upper |-> "X-SCAN-MODE", mixed |-> "X-Scan-Mode" ],
    [ lower |-> "x-lockllm-credits-mode", upper |-> "X-LOCKLLM-CREDITS-MODE",
      mixed |-> "X-LockLLM-Credits-Mode" ],
    [ lower |-> "x-lockllm-provider", upper |-> "X-LOCKLLM-PROVIDER",
      mixed |-> "X-LockLLM-Provider" ],
    [ lower |-> "x-lockllm-model", upper |-> "X-LOCKLLM-MODEL",
      mixed |-> "X-LockLLM-Model" ],
    [ lower |-> "x-lockllm-cache-status", upper |-> "X-LOCKLLM-CACHE-STATUS",
      mixed |-> "X-LockLLM-Cache-Status" ] }

Spellings == { "lower", "upper", "mixed" }

\* String.prototype.toLowerCase over the header names above
ToLowerCase(s) ==
  IF \E n \in ResponseHeaderNames : s \in { n.lower, n.upper, n.mixed }
    THEN (CHOOSE n \in ResponseHeaderNames : s \in { n.lower, n.upper, n.mixed }).lower
    ELSE s

\* The value a response carries under each header
ResponseValue(lower) ==
  CASE lower = "x-request-id" -> "req_case"
    [] lower = "x-lockllm-scanned" -> "true"
    [] lower = "x-lockllm-safe" -> "true"
    [] lower = "x-scan-mode" -> "normal"
    [] lower = "x-lockllm-credits-mode" -> "lockllm_credits"
    [] lower = "x-lockllm-provider" -> "anthropic"
    [] lower = "x-lockllm-model" -> "claude-3"
    [] lower = "x-lockllm-cache-status" -> "HIT"

\* Name / value pairs of a response: the given headers in one spelling
Entries(names, spelling) ==
  [ k \in { n[spelling] : n \in names } |-> ResponseValue(ToLowerCase(k)) ]

\* new Headers(entries): names are stored in lower case
HeadersOf(entries) ==
  [ k \in { ToLowerCase(j) : j \in DOMAIN entries } |->
      entries[CHOOSE j \in DOMAIN entries : ToLowerCase(j) = k] ]

\* The argument of parseProxyMetadata: a Headers collection or a plain object
\* made from the same name / value pairs
HeaderCollection(kind, entries) ==
  [ kind |-> kind,
    entries |-> IF kind = "Headers" THEN HeadersOf(entries) ELSE entries ]

NoHeaderCollection == HeaderCollection("object", EmptyHeaders)

\* Headers.prototype.get(name)
HeadersGet(h, name) ==
  IF ToLowerCase(name) \in DOMAIN h THEN h[ToLowerCase(name)] ELSE NullStr

\* getHeader of parseProxyMetadata
getHeader(headers, name) ==
  IF headers.kind = "Headers" THEN HeadersGet(headers.entries, name)
  ELSE StrOrElse(HeaderValue(headers.entries, name),
                 StrOrElse(HeaderValue(headers.entries, ToLowerCase(name)), NullStr))

\* The fields of ProxyResponseMetadata that are read from one header each
\* (an absent optional field is undefined)
parseProxyMetadata(headers) ==
  [ request_id |-> StrOrElse(getHeader(headers, "x-request-id"), ""),
    scanned |-> getHeader(headers, "x-lockllm-scanned") = "true",
    safe |-> getHeader(headers, "x-lockllm-safe") = "true",
    scan_mode |-> StrOrElse(getHeader(headers, "x-scan-mode"), "combined"),
    credits_mode |-> StrOrElse(getHeader(headers, "x-lockllm-credits-mode"), "byok"),
    provider |-> StrOrElse(getHeader(headers, "x-lockllm-provider"), ""),
    model |-> StrOrElse(getHeader(headers, "x-lockllm-model"), UndefStr),
    cache_status |-> StrOrElse(getHeader(headers, "x-lockllm-cache-status"), UndefStr) ]

NoMetadata == parseProxyMetadata(NoHeaderCollection)

\* The headers of a response: which of the names it carries, how it spells
\* them, and the collection it hands them over in
Response(kind, names, spelling) ==
  [ kind |-> kind, names |-> names, spelling |-> spelling ]

NoResponse == Response("object", {}, "lower")

\* The argument parseProxyMetadata receives for such a response
CollectionOf(response) ==
  HeaderCollection(response.kind, Entries(response.names, response.spelling))

\* A call of scan, buildLockLLMHeaders, parseProxyMetadata or a wrapper: its
\* arguments and what it produced
ProxyCall(fn, request, scanOptions, options, config, response, posted, headers,
          metadata, constructed) ==
  [ fn |-> fn, request |-> request, scanOptions |-> scanOptions,
    options |-> options, config |-> config, response |-> response,
    posted |-> posted, headers |-> headers, metadata |-> metadata,
    constructed |-> constructed ]

NoProxy ==
  ProxyCall("none", NoScanRequest, NoScanOptions, NoProxyOptions, NoWrapperConfig,
            NoResponse, NoPosted, EmptyHeaders, NoMetadata,
            NoConstructorConfig)

----------------------------------------------------------------------------
(* client.ts: LockLLM *)

MaxKeyLen == 2            \* longest API key, in characters

\* Characters of an API key: whitespace and one that is not
WhiteSpace == { " ", "\t" }
KeyChars == WhiteSpace \cup { "k" }

\* API key strings up to MaxKeyLen characters, as sequences of characters
KeyStrings == UNION { [ 1 .. n -> KeyChars ] : n \in 0 .. MaxKeyLen }

\* config.apiKey: a string, or undefined
NoKey == [def |-> FALSE, v |-> << >>]
SomeKey(s) == [def |-> TRUE, v |-> s]
ConfigKeys == { NoKey } \cup { SomeKey(s) : s \in KeyStrings }

\* String.prototype.trim
RECURSIVE TrimStart(_)
TrimStart(s) ==
  IF s # << >> /\ Head(s) \in WhiteSpace THEN TrimStart(Tail(s)) ELSE s
RECURSIVE TrimEnd(_)
TrimEnd(s) ==
  IF s # << >> /\ s[Len(s)] \in WhiteSpace
    THEN TrimEnd(SubSeq(s, 1, Len(s) - 1)) ELSE s
Trim(s) == TrimEnd(TrimStart(s))

\* A base URL: its text up to the trailing slashes, and how many follow
Url(text, slashes) == [text |-> text, slashes |-> slashes]
DEFAULT_BASE_URL == Url("https://api.lockllm.com", 0)
NoUrl == [def |-> FALSE, v |-> Url("", 0)]
SomeUrl(u) == [def |-> TRUE, v |-> u]
ConfigBaseURLs ==
  { NoUrl, SomeUrl(Url("https://custom.lockllm.com", 0)),
    SomeUrl(Url("https://custom.lockllm.com", 1)) }

\* baseURL.replace(/\/$/, '')
RemoveTrailingSlash(u) == [ u EXCEPT !.slashes = Max(0, @ - 1) ]

\* a ?? b
Nullish(o, b) == IF o.def THEN o.v ELSE b

\* The configuration objects a caller passes to the constructor
ConfigClientTimeouts == { None, Some(30000) }
ConfigClientMaxRetries == { None, Some(-1), Some(2) }
LockLLMConfigs ==
  [ apiKey : ConfigKeys, baseURL : ConfigBaseURLs, timeout : ConfigClientTimeouts,
    maxRetries : ConfigClientMaxRetries ]

\* No configuration object: no LockLLM client is being constructed
NoLockLLMConfig == [ apiKey |-> NoKey, baseURL |-> NoUrl, timeout |-> None,
                     maxRetries |-> None ]

\* A validation that rejects only the missing and the empty key
BlankKeyWithoutTrim(k) == ~k.def \/ k.v = << >>

\* !config.apiKey || !config.apiKey.trim()
BlankKey(k) == ~k.def \/ k.v = << >> \/ Trim(k.v) = << >>

\* this.config = { apiKey, baseURL ?? ..., timeout ?? ..., maxRetries ?? ... }
ResolvedConfig(config) ==
  [ apiKey |-> config.apiKey.v,
    baseURL |-> Nullish(config.baseURL, DEFAULT_BASE_URL),
    timeout |-> Nullish(config.timeout, DEFAULT_TIMEOUT),
    maxRetries |-> Nullish(config.maxRetries, DEFAULT_MAX_RETRIES) ]

\* new HttpClient(baseURL, apiKey, timeout, maxRetries): the fields it keeps
HttpClientOf(resolved) ==
  [ baseURL |-> RemoveTrailingSlash(resolved.baseURL),
    apiKey |-> resolved.apiKey,
    timeout |-> resolved.timeout,
    maxRetries |-> resolved.maxRetries ]

NoConfig == [ apiKey |-> << >>, baseURL |-> Url("", 0), timeout |-> 0,
              maxRetries |-> 0 ]
NoHttpClient == HttpClientOf(NoConfig)

\* The LockLLM instance: how far its constructor got, this.config, the
\* fields of this.http, the error the constructor threw, and a record of the
\* configuration it resolved, of the HttpClients it created and of the
\* settings its latest request used
NoSdk == [ phase |-> "new", config |-> NoConfig, http |-> NoHttpClient,
           err |-> NoError, built |-> NoConfig, httpClients |-> 0,
           requests |-> 0, used |-> NoHttpClient ]

\* The object a getConfig() call handed out, whether it is this.config
\* itself, and what it held when it was returned
NoReturned == [ given |-> FALSE, obj |-> NoConfig, same |-> FALSE,
                asReturned |-> NoConfig ]

\* getConfig() that returns this.config itself
GetConfigSameObject(cfg) ==
  [ given |-> TRUE, obj |-> cfg, same |-> TRUE, asReturned |-> cfg ]

\* getConfig(): return { ...this.config }
GetConfig(cfg) ==
  [ given |-> TRUE, obj |-> cfg, same |-> FALSE, asReturned |-> cfg ]

\* The fields a caller overwrites in a configuration object it holds, and
\* the values it writes: into the constructor's argument, and into a
\* resolved configuration
OverwrittenFields == { "apiKey", "baseURL", "timeout" }
OverwriteResolved(field) ==
  CASE field = "apiKey" -> << "k", "k" >>
    [] field = "baseURL" -> Url("https://modified.lockllm.com", 0)
    [] OTHER -> 10000
OverwriteInput(field) ==
  CASE field = "apiKey" -> SomeKey(OverwriteResolved(field))
    [] field = "baseURL" -> SomeUrl(OverwriteResolved(field))
    [] OTHER -> Some(OverwriteResolved(field))

\* obj[field] = value
Assign(obj, field, value) == [ obj EXCEPT ![field] = value ]

----------------------------------------------------------------------------
(* Concurrent calls on one HttpClient *)

NumCalls == 2             \* calls in flight on one client at the same time
CallIds == 1 .. NumCalls

\* What a fetch of a concurrent call ends with: a response or a rejection
Input(kind, status, xrid, ra, body, err) ==
  [ kind |-> kind, status |-> status, xrid |-> xrid, ra |-> ra, body |-> body,
    err |-> err ]
NoInput == Input("none", 0, NullStr, NoHeader, PlainObject, NoError)
CallInputs ==
  { Input("response", 200, NullStr, NoHeader, PlainObject, NoError),
    Input("response", 200, "srv_1", NoHeader, PlainObject, NoError),
    Input("response", 429, NullStr, NoHeader, PlainObject, NoError),
    Input("response", 429, NullStr, [kind |-> "seconds", n |-> 2], PlainObject,
          NoError),
    Input("response", 500, NullStr, NoHeader, PlainObject, NoError),
    Input("failure", 0, NullStr, NoHeader, PlainObject,
          RawError("TypeError", "TypeError", "fetch failed")),
    Input("timeout", 0, NullStr, NoHeader, PlainObject, AbortError) }

\* Retry ceilings of a client that serves concurrent calls
ConcurrentMaxRetries == { 0, 1 }

\* The locals of one activation of request() and of its makeRequest():
\* const requestId, let attempt, let lastError, const timeoutId
NoFrame == [ requestId |-> UndefStr, attempt |-> 0, lastError |-> NoError,
             timerPending |-> FALSE ]

\* A call: where it stands, its current wait, its outcome, and a record of
\* what happened to it: the identifier generated for it, the fetches it
\* issued, the waits it completed, the X-Request-Id it sent last and the
\* input that ended its latest attempt
NoCall == [ pc |-> "idle", delay |-> 0, outcome |-> NoOutcome, ownId |-> UndefStr,
            fetches |-> 0, wakes |-> 0, sent |-> UndefStr, lastIn |-> NoInput,
            ownError |-> NoError ]

\* One set of locals that all calls of the client use
FrameShared(c) == 1

\* The locals that call c reads and writes: those of its own activation
Frame(c) == c

InitCall ==
  /\ sdk = NoSdk
  /\ returned = NoReturned
  /\ frames = [ c \in CallIds |-> NoFrame ]
  /\ calls = [ c \in CallIds |-> NoCall ]
  /\ pc = "idle"
  /\ optSignal = FALSE
  /\ optTimeout = None
  /\ idCounter = 0
  /\ requestId = UndefStr
  /\ attempt = 0
  /\ lastError = NoError
  /\ fetches = 0
  /\ sentHeaders = EmptyHeaders
  /\ fetchSignal = "controller"
  /\ elapsed = 0
  /\ timerPending = FALSE
  /\ timerMs = 0
  /\ timerAge = 0
  /\ controllerAborted = FALSE
  /\ userAborted = FALSE
  /\ lastEvent = "none"
  /\ lastStatus = 0
  /\ lastRetryAfter = NoHeader
  /\ lastXRequestId = NullStr
  /\ lastBody = PlainObject
  /\ lastFailure = NoError
  /\ delay = 0
  /\ sleepLeft = 0
  /\ sleepCause = "none"
  /\ sleptAfterAbort = FALSE
  /\ outcome = NoOutcome

\* A client with any of the retry ceilings, one API key, and calls that pass
\* no headers of their own
Init ==
  /\ apiKey = DefaultApiKey
  /\ optHeaders = EmptyHeaders
  /\ maxRetries \in ConfigMaxRetries
  /\ \E t \in ConfigTimeouts : timeout = IF t.def THEN t.v ELSE DEFAULT_TIMEOUT
  /\ inputConfig = NoLockLLMConfig
  /\ parse = NoParse
  /\ proxy = NoProxy
  /\ InitCall

\* A client with either API key and a small retry ceiling, and calls that
\* pass any of the caller header sets
InitHeaders ==
  /\ apiKey \in ApiKeys
  /\ optHeaders \in CallerHeaders
  /\ maxRetries \in HeaderRunMaxRetries
  /\ \E t \in ConfigTimeouts : timeout = IF t.def THEN t.v ELSE DEFAULT_TIMEOUT
  /\ inputConfig = NoLockLLMConfig
  /\ parse = NoParse
  /\ proxy = NoProxy
  /\ InitCall

\* get / post / put / delete: request() up to its first fetch
Request ==
  /\ pc = "idle"
  /\ optSignal' \in BOOLEAN
  /\ optTimeout' \in OptionTimeouts
  /\ idCounter' = idCounter + 1
  /\ requestId' = generateRequestId(idCounter + 1)
  /\ attempt' = 0
  /\ lastError' = NoError
  /\ IF LoopCondition(0, maxRetries)
       THEN /\ MakeRequest(requestId', optSignal', optTimeout')
            /\ UNCHANGED outcome
       ELSE ThrowAfterLoop(NoError, requestId')
  /\ UNCHANGED << parse, proxy, inputConfig, sdk, returned, frames, calls, apiKey, optHeaders, maxRetries, timeout, userAborted, delay, sleepLeft, sleepCause,
                  sleptAfterAbort >>

\* fetch resolves with a response (it rejects instead once its signal is
\* aborted); the rest of the iteration runs
Respond ==
  /\ pc = "inflight"
  /\ ~SignalAborted
  /\ \E status \in Statuses, xrid \in XRequestIdHeaders :
       \E ra \in RetryAfterFor(status), body \in BodiesFor(status) :
         LET t == TryBody(status, xrid, ra, body, attempt, maxRetries, requestId)
             st == Iteration(status, xrid, ra, body, attempt, maxRetries, requestId)
         IN  /\ lastStatus' = status
             /\ lastXRequestId' = xrid
             /\ lastRetryAfter' = ra
             /\ lastBody' = body
             /\ lastError' = IF t.do = "raise"
                               THEN LastErrorAfter(t.err, lastError) ELSE lastError
             /\ Continue(st)
  /\ EndRequest
  /\ lastEvent' = "response"
  /\ UNCHANGED << parse, proxy, inputConfig, sdk, returned, frames, calls, apiKey, optHeaders, maxRetries, timeout, optSignal, optTimeout, idCounter, requestId,
                  attempt, fetches, sentHeaders, fetchSignal, timerMs,
                  userAborted, lastFailure, sleptAfterAbort >>

\* fetch rejects with error e; the catch block runs
Reject(e, event) ==
  /\ EndRequest
  /\ lastEvent' = event
  /\ lastFailure' = e
  /\ lastError' = LastErrorAfter(e, lastError)
  /\ Continue(Catch(e, attempt, maxRetries, requestId))
  /\ UNCHANGED << parse, proxy, inputConfig, sdk, returned, frames, calls, apiKey, optHeaders, maxRetries, timeout, optSignal, optTimeout, idCounter, requestId,
                  attempt, fetches, sentHeaders, fetchSignal, timerMs,
                  userAborted, lastStatus, lastRetryAfter, lastXRequestId,
                  lastBody, sleptAfterAbort >>

\* The network fails
FetchFail ==
  /\ pc = "inflight"
  /\ ~SignalAborted
  /\ \E e \in NetworkFailures : Reject(e, "failure")

\* The signal handed to fetch is aborted: fetch rejects with an AbortError
FetchAbort ==
  /\ pc = "inflight"
  /\ SignalAborted
  /\ Reject(AbortError, IF fetchSignal = "user" THEN "userabort" ELSE "timeout")

\* The setTimeout callback of makeRequest: controller.abort()
TimerFire ==
  /\ TimerDue
  /\ timerPending' = FALSE
  /\ timerAge' = 0
  /\ controllerAborted' = TRUE
  /\ UNCHANGED << parse, proxy, inputConfig, sdk, returned, frames, calls, apiKey, optHeaders, maxRetries, timeout, pc, optSignal, optTimeout, idCounter,
                  requestId, attempt, lastError, fetches, sentHeaders, fetchSignal,
                  elapsed, timerMs, userAborted, lastEvent, lastStatus,
                  lastRetryAfter, lastXRequestId, lastBody, lastFailure, delay,
                  sleepLeft, sleepCause, sleptAfterAbort, outcome >>

\* The caller aborts the signal it passed in options
CallerAbort ==
  /\ pc \in { "inflight", "sleeping" }
  /\ optSignal
  /\ ~userAborted
  /\ userAborted' = TRUE
  /\ UNCHANGED << parse, proxy, inputConfig, sdk, returned, frames, calls, apiKey, optHeaders, maxRetries, timeout, pc, optSignal, optTimeout, idCounter,
                  requestId, attempt, lastError, fetches, sentHeaders, fetchSignal,
                  elapsed, timerPending, timerMs, timerAge, controllerAborted,
                  lastEvent, lastStatus, lastRetryAfter, lastXRequestId, lastBody,
                  lastFailure, delay, sleepLeft, sleepCause, sleptAfterAbort,
                  outcome >>

\* Time passes while the call is suspended.  A due timer fires and a pending
\* rejection is delivered before more time passes.
Tick ==
  /\ ~TimerDue
  /\ \/ /\ pc = "inflight"
        /\ ~SignalAborted
        /\ elapsed + FlightStep <= MaxElapsed
        /\ elapsed' = elapsed + FlightStep
        /\ timerAge' = IF timerPending THEN timerAge + FlightStep ELSE timerAge
        /\ UNCHANGED << sleepLeft, sleptAfterAbort >>
     \/ /\ pc = "sleeping"
        /\ sleepLeft > 0
        /\ sleepLeft' = Max(0, sleepLeft - SleepStep(delay))
        /\ sleptAfterAbort' = (sleptAfterAbort \/ userAborted)
        /\ timerAge' = IF timerPending THEN timerAge + SleepStep(delay) ELSE timerAge
        /\ UNCHANGED elapsed
  /\ UNCHANGED << parse, proxy, inputConfig, sdk, returned, frames, calls, apiKey, optHeaders, maxRetries, timeout, pc, optSignal, optTimeout, idCounter,
                  requestId, attempt, lastError, fetches, sentHeaders, fetchSignal,
                  timerPending, timerMs, controllerAborted, userAborted, lastEvent,
                  lastStatus, lastRetryAfter, lastXRequestId, lastBody, lastFailure,
                  delay, sleepCause, outcome >>

\* The sleep timer fires: `continue`, attempt++, next iteration
Wake ==
  /\ pc = "sleeping"
  /\ SleepResolved
  /\ attempt' = NextAttempt(attempt)
  /\ IF LoopCondition(attempt', maxRetries)
       THEN /\ MakeRequest(requestId, optSignal, optTimeout)
            /\ UNCHANGED outcome
       ELSE ThrowAfterLoop(lastError, requestId)
  /\ delay' = 0
  /\ sleepCause' = sleepCause
  /\ UNCHANGED << parse, proxy, inputConfig, sdk, returned, frames, calls, apiKey, optHeaders, maxRetries, timeout, optSignal, optTimeout, idCounter, requestId,
                  lastError, userAborted, sleepLeft, sleptAfterAbort >>

Next ==
  \/ Request
  \/ Respond
  \/ FetchFail
  \/ FetchAbort
  \/ TimerFire
  \/ CallerAbort
  \/ Tick
  \/ Wake

Spec == Init /\ [][Next]_vars

SpecHeaders == InitHeaders /\ [][Next]_vars

TypeOK ==
  /\ pc \in { "idle", "inflight", "sleeping", "returned", "thrown" }
  /\ attempt \in Nat
  /\ fetches \in Nat
  /\ sleepLeft \in Nat

----------------------------------------------------------------------------
(* Properties of the transport core *)

\* The latest fetch resolved with a response that is neither 2xx nor 429
OtherErrorResponse ==
  lastEvent = "response" /\ ~Ok(lastStatus) /\ lastStatus # 429

\* The typed error the latest response's body maps to
MappedError ==
  parseError(ErrorData(lastBody), ResponseRequestId(lastXRequestId, requestId))

\* C1: a call on a client with maxRetries = n >= 0 issues at most n + 1
\* HTTP attempts, whatever the responses and failures.
C1_AtMostMaxRetriesPlusOne ==
  maxRetries >= 0 => fetches <= maxRetries + 1

\* A call that used every permitted attempt, retries included
C1_Witness ==
  /\ pc = "thrown"
  /\ maxRetries >= DEFAULT_MAX_RETRIES
  /\ fetches = maxRetries + 1

\* C2 as stated: a response that is neither 2xx nor 429 ends the call on
\* that attempt with the typed error mapped from its body, whatever variant
\* the body maps to and however many retries remain.
C2_Original ==
  OtherErrorResponse => pc = "thrown" /\ outcome.err = MappedError

\* C2 amended: such a response ends the call on that attempt with the mapped
\* typed error unless the body maps to the rate-limit variant; a mapped
\* rate-limit error is retried after the computed backoff while attempts
\* remain and is raised once they are exhausted.
C2_Amended ==
  OtherErrorResponse =>
    IF MappedError.class = "RateLimitError" /\ attempt < maxRetries
      THEN /\ pc = "sleeping"
           /\ sleepCause = "error"
           /\ delay = calculateBackoff(attempt)
           /\ lastError = MappedError
      ELSE /\ pc = "thrown"
           /\ outcome.err = MappedError

\* A non-429 error response mapped to a non-rate-limit variant ended the
\* call while retries remained
C2_Witness ==
  /\ OtherErrorResponse
  /\ pc = "thrown"
  /\ attempt < maxRetries
  /\ MappedError.class = "PromptInjectionError"

\* C3: every call that does not return a result rejects with an instance of
\* LockLLMError; no raw exception escapes request().
C3_AlwaysTypedError ==
  pc = "thrown" => outcome.kind = "error" /\ outcome.err.typed

\* A body-decode failure of a 2xx response surfaced as a typed error
C3_Witness ==
  /\ pc = "thrown"
  /\ lastEvent = "response"
  /\ Ok(lastStatus)
  /\ lastBody = InvalidJson
  /\ outcome.err.typed
  /\ outcome.err.cause[1] = "SyntaxError"

\* The latest fetch rejected: network failure, caller abort or timeout
TransportFailure == lastEvent \in { "failure", "userabort", "timeout" }

\* The failure is of a kind the retry loop retries: a TypeError whose
\* message contains 'fetch', or an error named AbortError
RetriedKind(e) ==
  \/ e.class = "TypeError" /\ e.message \in { "fetch failed", "Failed to fetch" }
  \/ e.name = "AbortError"

\* The call sleeps min(1000 * 2^attempt, 30000) ms before another attempt
BackoffWait ==
  /\ pc = "sleeping"
  /\ sleepCause = "error"
  /\ delay = Min(1000 * 2^attempt, 30000)

\* The call rejected with a NetworkError wrapping the latest failure and
\* carrying the locally generated identifier
NetworkErrorOfFailure ==
  /\ pc = "thrown"
  /\ outcome.err.class = "NetworkError"
  /\ outcome.err.cause = << lastFailure.class, lastFailure.message >>
  /\ outcome.err.requestId = requestId
  /\ requestId = "req_1"

GivenDuration(h) == IF h.kind = "seconds" THEN 1000 * h.n ELSE Max(0, h.n)
GivesDuration(h) == h.kind \in { "seconds", "date" } /\ h.n >= 0

\* C5: when 429 responses are followed by a 2xx response the call returns
\* that response's decoded payload, and before each retry the client waits
\* the duration given by the preceding 429's Retry-After header.
C5_Original ==
  /\ (lastEvent = "response" /\ Ok(lastStatus) /\ lastBody # InvalidJson)
       => (pc = "returned" /\ outcome.data = lastBody)
  /\ (pc = "sleeping" /\ sleepCause = "429" /\ GivesDuration(lastRetryAfter))
       => delay = GivenDuration(lastRetryAfter)

\* C6: on a 429 with attempts remaining the wait equals the parsed
\* Retry-After for every parsed value >= 0 ms; the computed backoff is used
\* when the response carries no parseable Retry-After.
C6_Original ==
  (pc = "sleeping" /\ sleepCause = "429") =>
    LET parsed == parseRetryAfter(lastRetryAfter)
    IN  /\ (parsed.def /\ parsed.v >= 0) => delay = parsed.v
        /\ ~parsed.def => delay = Min(1000 * 2^attempt, 30000)

C9_Original == ~(pc = "sleeping" /\ sleptAfterAbort)

\* C9 amended: the wait between two attempts is not cancellable; aborting
\* the token changes nothing about it, and the call stays asleep until the
\* full wait has elapsed.
C9_Amended ==
  [][ (pc = "sleeping" /\ sleepLeft > 0) =>
        /\ pc' = "sleeping"
        /\ delay' = delay
        /\ (userAborted' # userAborted => sleepLeft' = sleepLeft) ]_vars

\* Time passed in a wait after the caller's abort, and the call still sleeps
C9_Witness ==
  /\ pc = "sleeping"
  /\ sleptAfterAbort
  /\ sleepLeft > 0

\* The deadline of an attempt: the per-call timeout if given, else the
\* client-wide one
Deadline == IF optTimeout.def THEN optTimeout.v ELSE timeout

C10_TokenOutlivesDeadline ==
  /\ pc = "inflight"
  /\ optSignal
  /\ ~userAborted
  /\ elapsed > Deadline

----------------------------------------------------------------------------
(* Timer hygiene of makeRequest *)

\* C11: once an attempt has completed (response, failure or abort) the
\* timeout timer armed for it is cleared: no timer is pending during a retry
\* wait or after the call settles, and a timer pending during an attempt is
\* the one armed at the start of that very attempt.
C11_TimerCleared ==
  /\ pc \in { "sleeping", "returned", "thrown" } => ~timerPending
  /\ timerPending => (pc = "inflight" /\ timerAge = elapsed /\ timerAge <= timerMs)

\* A retry wait is half over after an attempt that a network failure ended
\* before its timer was due
C11_Witness ==
  /\ pc = "sleeping"
  /\ lastEvent = "failure"
  /\ fetches = 2
  /\ sleepLeft > 0
  /\ sleepLeft < delay
  /\ ~timerPending

----------------------------------------------------------------------------
(* Headers of an attempt and the identifier of a result *)

\* The X-Request-Id header of the latest fetch
sentRequestId == HeaderValue(sentHeaders, "X-Request-Id")

\* C13 as stated: every attempt of a call, retries included, sends as
\* X-Request-Id the identifier generated once before the first attempt, and
\* no retry generates another identifier.
C13_Original ==
  fetches >= 1 =>
    /\ sentRequestId = requestId
    /\ requestId = generateRequestId(1)
    /\ idCounter = 1

\* C13, amended: the identifier of a call is generated once, before the
\* first attempt, and no retry generates another; every attempt sends it as
\* X-Request-Id unless the caller's headers name X-Request-Id, and then
\* every attempt sends the caller's value.
C13_Amended ==
  fetches >= 1 =>
    /\ requestId = generateRequestId(1)
    /\ idCounter = 1
    /\ sentRequestId = IF "X-Request-Id" \in DOMAIN optHeaders
                         THEN optHeaders["X-Request-Id"]
                         ELSE requestId

\* The second retry of a call is in flight with the generated identifier
C13_Witness ==
  /\ pc = "inflight"
  /\ fetches = 3
  /\ attempt = 2
  /\ "X-Request-Id" \notin DOMAIN optHeaders
  /\ sentRequestId = generateRequestId(1)

C14_WitnessLocal ==
  /\ pc = "returned"
  /\ lastXRequestId = NullStr
  /\ outcome.requestId = generateRequestId(1)

\* C15 as stated: every attempt carries Authorization: Bearer <configured
\* API key>, whatever headers the caller passes.
C15_Original ==
  fetches >= 1 => HeaderValue(sentHeaders, "Authorization") = "Bearer " \o apiKey

\* C15, amended: every attempt carries Authorization: Bearer <configured
\* API key> unless the caller's headers name Authorization, and then every
\* attempt carries the caller's value; headers of the caller that the client
\* does not set are sent as given.
C15_Amended ==
  fetches >= 1 =>
    /\ HeaderValue(sentHeaders, "Authorization") =
         IF "Authorization" \in DOMAIN optHeaders
           THEN optHeaders["Authorization"]
           ELSE "Bearer " \o apiKey
    /\ \A k \in DOMAIN optHeaders : sentHeaders[k] = optHeaders[k]

\* A retry is in flight for a caller that passes a header of its own
C15_Witness ==
  /\ pc = "inflight"
  /\ fetches = 2
  /\ apiKey = "key_b"
  /\ "X-Custom" \in DOMAIN optHeaders
  /\ HeaderValue(sentHeaders, "Authorization") = "Bearer key_b"

----------------------------------------------------------------------------
(* State machine of concurrent calls *)

\* The variables of the single call followed above, apart from the
\* identifier generator
oneCall == << apiKey, optHeaders, maxRetries, timeout, pc, optSignal, optTimeout,
              requestId, attempt, lastError, fetches, sentHeaders, fetchSignal,
              elapsed, timerPending, timerMs, timerAge, controllerAborted,
              userAborted, lastEvent, lastStatus, lastRetryAfter, lastXRequestId,
              lastBody, lastFailure, delay, sleepLeft, sleepCause, sleptAfterAbort,
              outcome >>

InitConcurrent ==
  /\ apiKey = DefaultApiKey
  /\ optHeaders = EmptyHeaders
  /\ maxRetries \in ConcurrentMaxRetries
  /\ \E t \in ConfigTimeouts : timeout = IF t.def THEN t.v ELSE DEFAULT_TIMEOUT
  /\ inputConfig = NoLockLLMConfig
  /\ parse = NoParse
  /\ proxy = NoProxy
  /\ InitCall

\* What one iteration of the loop does with input in, at attempt att of the
\* call whose identifier is rid
IterationOn(in, att, rid) ==
  IF in.kind = "response"
    THEN Iteration(in.status, in.xrid, in.ra, in.body, att, maxRetries, rid)
    ELSE Catch(in.err, att, maxRetries, rid)

\* The error the iteration leaves in lastError, given the one it held
LastErrorOn(in, att, rid, old) ==
  IF in.kind = "response"
    THEN LET t == TryBody(in.status, in.xrid, in.ra, in.body, att, maxRetries, rid)
         IN  IF t.do = "raise" THEN LastErrorAfter(t.err, old) ELSE old
    ELSE LastErrorAfter(in.err, old)

\* Where a call stands after a step of its loop
PcAfter(st) == CASE st.do = "return" -> "returned"
                 [] st.do = "sleep" -> "sleeping"
                 [] OTHER -> "thrown"

OutcomeAfter(st) == CASE st.do = "return" -> Returned(st.data, st.requestId)
                      [] st.do = "sleep" -> NoOutcome
                      [] st.do = "break" -> Thrown(AfterLoop(st.err, st.requestId))
                      [] OTHER -> Thrown(st.err)

\* Call c enters request(): its identifier is generated and its first
\* attempt is issued
StartCall(c) ==
  /\ calls[c].pc = "idle"
  /\ idCounter' = idCounter + 1
  /\ LET rid == generateRequestId(idCounter + 1)
         go == LoopCondition(0, maxRetries)
     IN  /\ frames' = [ frames EXCEPT ![Frame(c)] =
                          [ requestId |-> rid, attempt |-> 0, lastError |-> NoError,
                            timerPending |-> go ] ]
         /\ calls' = [ calls EXCEPT ![c] =
                         [ @ EXCEPT !.pc = IF go THEN "inflight" ELSE "thrown",
                                    !.outcome = IF go THEN NoOutcome
                                                ELSE Thrown(AfterLoop(NoError, rid)),
                                    !.ownId = rid,
                                    !.fetches = IF go THEN 1 ELSE 0,
                                    !.sent = IF go THEN rid ELSE UndefStr ] ]
  /\ UNCHANGED << oneCall, clientVars, parse, proxy >>

\* The fetch of call c ends with input in: a response, a network failure,
\* or the abort by the timer of its makeRequest
EndAttempt(c, in) ==
  LET f == frames[Frame(c)]
      st == IterationOn(in, f.attempt, f.requestId)
  IN  /\ calls[c].pc = "inflight"
      /\ frames' = [ frames EXCEPT ![Frame(c)] =
                       [ @ EXCEPT !.timerPending = FALSE,
                                  !.lastError = LastErrorOn(in, f.attempt,
                                                            f.requestId, f.lastError) ] ]
      /\ calls' = [ calls EXCEPT ![c] =
                      [ @ EXCEPT !.pc = PcAfter(st),
                                 !.outcome = OutcomeAfter(st),
                                 !.delay = IF st.do = "sleep" THEN st.delay ELSE 0,
                                 !.lastIn = in,
                                 !.ownError = LastErrorOn(in, calls[c].wakes,
                                                calls[c].ownId, calls[c].ownError) ] ]
      /\ UNCHANGED << idCounter, oneCall, clientVars, parse, proxy >>

CallResponds(c) ==
  \E in \in CallInputs : in.kind = "response" /\ EndAttempt(c, in)

CallFails(c) ==
  \E in \in CallInputs : in.kind = "failure" /\ EndAttempt(c, in)

\* The timer armed by the makeRequest of call c fires
CallTimesOut(c) ==
  /\ frames[Frame(c)].timerPending
  /\ \E in \in CallInputs : in.kind = "timeout" /\ EndAttempt(c, in)

\* The sleep of call c resolves: attempt++ and the next iteration
CallWakes(c) ==
  LET f == frames[Frame(c)]
      att == NextAttempt(f.attempt)
      go == LoopCondition(att, maxRetries)
  IN  /\ calls[c].pc = "sleeping"
      /\ frames' = [ frames EXCEPT ![Frame(c)] =
                       [ @ EXCEPT !.attempt = att, !.timerPending = go ] ]
      /\ calls' = [ calls EXCEPT ![c] =
                      [ @ EXCEPT !.pc = IF go THEN "inflight" ELSE "thrown",
                                 !.outcome = IF go THEN NoOutcome
                                   ELSE Thrown(AfterLoop(f.lastError, f.requestId)),
                                 !.delay = 0,
                                 !.wakes = @ + 1,
                                 !.fetches = IF go THEN @ + 1 ELSE @,
                                 !.sent = IF go THEN f.requestId ELSE @,
                                 !.lastIn = IF go THEN NoInput ELSE @ ] ]
      /\ UNCHANGED << idCounter, oneCall, clientVars, parse, proxy >>

NextConcurrent ==
  \/ \E c \in CallIds : StartCall(c)
  \/ \E c \in CallIds : CallResponds(c)
  \/ \E c \in CallIds : CallFails(c)
  \/ \E c \in CallIds : CallTimesOut(c)
  \/ \E c \in CallIds : CallWakes(c)

SpecConcurrent == InitConcurrent /\ [][NextConcurrent]_vars

\* What call c would do, run alone, with the input that ended its latest
\* attempt: the iteration at the number of waits it has completed, under
\* the identifier generated for it
Alone(c) == IterationOn(calls[c].lastIn, calls[c].wakes, calls[c].ownId)

\* C12: when two or more calls on the same client interleave at their
\* suspension points, each call's attempts, waits and outcome are those it
\* would have run alone against the same responses: its attempt counter
\* counts its own waits, it sends and reports its own identifier, its
\* last-error slot holds its own latest error, its timer is pending exactly
\* while its own attempt is in flight, and no two calls share an identifier.
C12_CallsIndependent ==
  /\ \A c \in CallIds :
       calls[c].pc # "idle" =>
         /\ frames[c].requestId = calls[c].ownId
         /\ frames[c].attempt = calls[c].wakes
         /\ frames[c].lastError = calls[c].ownError
         /\ frames[c].timerPending = (calls[c].pc = "inflight")
         /\ calls[c].fetches = calls[c].wakes + 1
         /\ calls[c].fetches <= maxRetries + 1
         /\ calls[c].sent = calls[c].ownId
         /\ calls[c].pc \in { "sleeping", "returned", "thrown" } =>
              /\ calls[c].pc = PcAfter(Alone(c))
              /\ calls[c].outcome = OutcomeAfter(Alone(c))
              /\ calls[c].pc = "sleeping" => calls[c].delay = Alone(c).delay
  /\ \A c, d \in CallIds :
       (c # d /\ calls[c].pc # "idle" /\ calls[d].pc # "idle")
         => calls[c].ownId # calls[d].ownId

\* One call is waiting for its first retry while the other, started after
\* it, has already succeeded on a retry of its own
C12_Witness ==
  /\ calls[1].pc = "sleeping"
  /\ calls[1].wakes = 0
  /\ calls[1].lastIn.kind = "timeout"
  /\ calls[1].ownId = generateRequestId(1)
  /\ calls[2].pc = "returned"
  /\ calls[2].wakes = 1
  /\ calls[2].outcome.requestId = generateRequestId(2)

----------------------------------------------------------------------------
(* State machine of a LockLLM client *)

\* The variables of the transport core
transport == << frames, calls, idCounter, oneCall >>

ApiKeyRequired ==
  "API key is required. Get your API key from https://www.lockllm.com/dashboard"

InitClient ==
  /\ apiKey = DefaultApiKey
  /\ optHeaders = EmptyHeaders
  /\ maxRetries = DEFAULT_MAX_RETRIES
  /\ timeout = DEFAULT_TIMEOUT
  /\ inputConfig \in LockLLMConfigs
  /\ parse = NoParse
  /\ proxy = NoProxy
  /\ InitCall

\* new LockLLM(config)
Construct ==
  /\ sdk.phase = "new"
  /\ sdk' = IF BlankKey(inputConfig.apiKey)
              THEN [ sdk EXCEPT !.phase = "failed",
                                !.err = ConfigurationError(ApiKeyRequired) ]
              ELSE [ sdk EXCEPT !.phase = "constructed",
                                !.config = ResolvedConfig(inputConfig),
                                !.http = HttpClientOf(ResolvedConfig(inputConfig)),
                                !.built = ResolvedConfig(inputConfig),
                                !.httpClients = @ + 1 ]
  /\ UNCHANGED << inputConfig, returned, transport, parse, proxy >>

\* client.getConfig()
GetConfigCall ==
  /\ sdk.phase = "constructed"
  /\ returned' = GetConfig(sdk.config)
  /\ UNCHANGED << inputConfig, sdk, transport, parse, proxy >>

\* The caller writes into the object it passed to the constructor
MutateInput ==
  /\ sdk.phase = "constructed"
  /\ \E field \in OverwrittenFields :
       /\ inputConfig[field] # OverwriteInput(field)
       /\ inputConfig' = Assign(inputConfig, field, OverwriteInput(field))
  /\ UNCHANGED << sdk, returned, transport, parse, proxy >>

\* The caller writes into the object getConfig() returned
MutateReturned ==
  /\ returned.given
  /\ \E field \in OverwrittenFields :
       /\ returned.obj[field] # OverwriteResolved(field)
       /\ returned' = [ returned EXCEPT
                         !.obj = Assign(@, field, OverwriteResolved(field)) ]
       /\ sdk' = IF returned.same
                   THEN [ sdk EXCEPT
                            !.config = Assign(@, field, OverwriteResolved(field)) ]
                   ELSE sdk
  /\ UNCHANGED << inputConfig, transport, parse, proxy >>

\* A request through the client: scan or a management call reads the
\* settings of this.http
ClientRequest ==
  /\ sdk.phase = "constructed"
  /\ sdk.requests = 0
  /\ sdk' = [ sdk EXCEPT !.requests = 1, !.used = sdk.http ]
  /\ UNCHANGED << inputConfig, returned, transport, parse, proxy >>

NextClient ==
  \/ Construct
  \/ GetConfigCall
  \/ MutateInput
  \/ MutateReturned
  \/ ClientRequest

SpecClient == InitClient /\ [][NextClient]_vars

\* C16: constructing a client with a missing, empty or whitespace-only API
\* key throws the configuration error before any HttpClient is created or
\* any request is made; with every other key the construction succeeds.
C16_ApiKeyValidated ==
  LET k == inputConfig.apiKey
      blank == ~k.def \/ \A i \in 1 .. Len(k.v) : k.v[i] \in WhiteSpace
  IN  /\ (sdk.phase = "failed") =>
           /\ blank
           /\ sdk.err.class = "ConfigurationError"
           /\ sdk.err.message = ApiKeyRequired
           /\ sdk.httpClients = 0
           /\ sdk.requests = 0
           /\ fetches = 0
      /\ (sdk.phase = "constructed" /\ inputConfig.apiKey = SomeKey(sdk.built.apiKey)) =>
           /\ ~blank
           /\ sdk.httpClients = 1
           /\ sdk.http.apiKey = k.v

\* The constructor threw for a key of two whitespace characters
C16_Witness ==
  /\ sdk.phase = "failed"
  /\ inputConfig.apiKey = SomeKey(<< " ", "\t" >>)

\* The constructor accepted a key with whitespace around it
C16_WitnessAccepted ==
  /\ sdk.phase = "constructed"
  /\ sdk.http.apiKey = << " ", "k" >>

\* C17: after construction the client's configuration never changes:
\* this.config and the settings of its HttpClient stay what the constructor
\* resolved, whatever the caller writes into the object it passed in or into
\* an object getConfig() returned; every getConfig() returns the resolved
\* configuration and every request uses the resolved settings.
C17_ConfigFrozen ==
  sdk.phase = "constructed" =>
    /\ sdk.config = sdk.built
    /\ sdk.http = HttpClientOf(sdk.built)
    /\ returned.given => returned.asReturned = sdk.built
    /\ sdk.requests > 0 => sdk.used = HttpClientOf(sdk.built)

\* The caller overwrote fields of the object it passed in and of an object
\* getConfig() returned, and the client made a request
C17_Witness ==
  /\ sdk.phase = "constructed"
  /\ inputConfig.timeout = Some(10000)
  /\ sdk.built.timeout = 30000
  /\ inputConfig.baseURL.v.text = "https://modified.lockllm.com"
  /\ returned.given
  /\ returned.obj.timeout = 10000
  /\ returned.asReturned.timeout = 30000
  /\ sdk.requests = 1

----------------------------------------------------------------------------
(* State machine of a parseError call *)

InitParse ==
  /\ apiKey = DefaultApiKey
  /\ optHeaders = EmptyHeaders
  /\ maxRetries = DEFAULT_MAX_RETRIES
  /\ timeout = DEFAULT_TIMEOUT
  /\ inputConfig = NoLockLLMConfig
  /\ \E body \in ParseEnvelopes \cup { PlainObject }, rid \in CallerRequestIds :
       parse = ParseCall(body, rid, FALSE, NoError)
  /\ proxy = NoProxy
  /\ InitCall

\* parseError(response, requestId) returns
ParseErrorCall ==
  /\ ~parse.done
  /\ parse' = [ parse EXCEPT !.done = TRUE,
                             !.result = parseError(parse.body, parse.rid) ]
  /\ UNCHANGED << transport, clientVars, proxy >>

NextParse == ParseErrorCall

SpecParse == InitParse /\ [][NextParse]_vars

----------------------------------------------------------------------------
(* Properties of the error mapper *)

\* C18: for every error envelope that satisfies more than one rule of the
\* precedence list (injection, policy, abuse, PII, credits, authentication,
\* rate limit, upstream, configuration), parseError returns the variant of
\* the earliest rule it satisfies; and an envelope whose code names a
\* payload-bearing variant but has no such payload is never mapped to that
\* variant.
C18_Original ==
  LET e == parse.body
      Satisfies(r) ==
        CASE r = 1 -> e.code = "prompt_injection_detected" /\ Present(e.scan_result)
          [] r = 2 -> e.code = "policy_violation" /\ Present(e.violated_policies)
          [] r = 3 -> e.code = "abuse_detected" /\ Present(e.abuse_details)
          [] r = 4 -> e.code = "pii_detected" /\ Present(e.pii_details)
          [] r = 5 -> e.code \in { "insufficient_credits", "no_balance",
                                   "balance_check_failed", "credits_unavailable",
                                   "invalid_provider_for_credits_mode",
                                   "insufficient_routing_credits" }
          [] r = 6 -> e.type = "authentication_error" \/ e.code = "unauthorized"
          [] r = 7 -> e.type = "rate_limit_error" \/ e.code = "rate_limited"
          [] r = 8 -> e.type = "upstream_error" \/ e.code = "provider_error"
          [] OTHER -> \/ e.type \in { "configuration_error", "lockllm_config_error" }
                      \/ e.code \in { "no_upstream_key", "no_byok_key" }
      Variant(r) ==
        CASE r = 1 -> "PromptInjectionError"
          [] r = 2 -> "PolicyViolationError"
          [] r = 3 -> "AbuseDetectedError"
          [] r = 4 -> "PIIDetectedError"
          [] r = 5 -> "InsufficientCreditsError"
          [] r = 6 -> "AuthenticationError"
          [] r = 7 -> "RateLimitError"
          [] r = 8 -> "UpstreamError"
          [] OTHER -> "ConfigurationError"
      satisfied == { r \in 1 .. 9 : Satisfies(r) }
      first == CHOOSE r \in satisfied : \A q \in satisfied : r <= q
  IN  (parse.done /\ e.kind = "envelope") =>
        /\ Cardinality(satisfied) > 1 => parse.result.class = Variant(first)
        /\ (e.code = "prompt_injection_detected" /\ ~Present(e.scan_result))
             => parse.result.class # "PromptInjectionError"
        /\ (e.code = "policy_violation" /\ ~Present(e.violated_policies))
             => parse.result.class # "PolicyViolationError"
        /\ (e.code = "abuse_detected" /\ ~Present(e.abuse_details))
             => parse.result.class # "AbuseDetectedError"
        /\ (e.code = "pii_detected" /\ ~Present(e.pii_details))
             => parse.result.class # "PIIDetectedError"

\* C19: for every error envelope with code pii_detected and a pii_details
\* payload, parseError returns the PII-detected variant, with status 403 and
\* that payload.
C19_Original ==
  (/\ parse.done
   /\ parse.body.kind = "envelope"
   /\ parse.body.code = "pii_detected"
   /\ Present(parse.body.pii_details))
    => /\ parse.result.class = "PIIDetectedError"
       /\ parse.result.status = Some(403)
       /\ parse.result.payload = parse.body.pii_details

\* C20: for every error envelope whose code is one of the six credit codes,
\* parseError returns the insufficient-credits variant, with status 402 and
\* the envelope's current_balance and estimated_cost, each 0 when absent.
C20_Original ==
  (/\ parse.done
   /\ parse.body.kind = "envelope"
   /\ parse.body.code \in { "insufficient_credits", "no_balance",
                            "balance_check_failed", "credits_unavailable",
                            "invalid_provider_for_credits_mode",
                            "insufficient_routing_credits" })
    => /\ parse.result.class = "InsufficientCreditsError"
       /\ parse.result.status = Some(402)
       /\ parse.result.current_balance =
            Some(Nullish(parse.body.current_balance, 0))
       /\ parse.result.estimated_cost =
            Some(Nullish(parse.body.estimated_cost, 0))

\* C21: for every error envelope and every variant parseError returns, the
\* error's requestId is the envelope's own request_id when it has one, and
\* the identifier passed by the caller of parseError only when it has none.
C21_Original ==
  parse.done =>
    parse.result.requestId =
      IF parse.body.kind = "envelope" /\ Present(parse.body.request_id)
        THEN parse.body.request_id
        ELSE parse.rid

\* The same, for the variants whose branch reads error.request_id:
\* injection, policy violation, abuse and insufficient credits
C21_PayloadVariants ==
  (parse.done /\ parse.result.class \in { "PromptInjectionError",
       "PolicyViolationError", "AbuseDetectedError", "InsufficientCreditsError" })
    => parse.result.requestId = StrOrElse(parse.body.request_id, parse.rid)

----------------------------------------------------------------------------
(* Further properties of the transport core *)

\* C26: parseRetryAfter never yields a negative duration: for every
\* Retry-After header of a 429 response, in the integer-seconds form and in
\* the HTTP-date form, it returns undefined or a number of milliseconds >= 0
\* (so neither a wait nor a RateLimitError carries a negative duration).
C26_Original ==
  (lastEvent = "response" /\ lastStatus = 429) =>
    /\ parseRetryAfter(lastRetryAfter).def => parseRetryAfter(lastRetryAfter).v >= 0
    /\ pc = "sleeping" => delay >= 0
    /\ (pc = "thrown" /\ outcome.err.retryAfter.def) => outcome.err.retryAfter.v >= 0

\* The same for the HTTP-date form alone, which the code clamps
C26_DateForm ==
  (lastEvent = "response" /\ lastStatus = 429 /\ lastRetryAfter.kind = "date") =>
    /\ parseRetryAfter(lastRetryAfter).def
    /\ parseRetryAfter(lastRetryAfter).v >= 0

\* C28: when a call runs out of attempts the error it raises reflects its
\* final attempt only: the RateLimitError of the final 429 response, or a
\* NetworkError wrapping the final transport failure, whatever ended the
\* earlier attempts.
C28_FinalAttemptOnly ==
  (pc = "thrown" /\ maxRetries >= 0 /\ attempt = maxRetries) =>
    /\ (lastEvent = "response" /\ lastStatus = 429) =>
         outcome.err = RateLimitError(RateLimitMessage(ErrorData(lastBody)),
                                      parseRetryAfter(lastRetryAfter),
                                      StrOrElse(lastXRequestId, requestId))
    /\ lastEvent \in { "failure", "timeout", "userabort" } =>
         /\ outcome.err.class = "NetworkError"
         /\ outcome.err.cause = << lastFailure.class, lastFailure.message >>
         /\ outcome.err.message = lastFailure.message
         /\ outcome.err.requestId = requestId

\* The last of three attempts failed at transport level after a wait that a
\* 429 response caused
C28_Witness ==
  /\ pc = "thrown"
  /\ maxRetries = 3
  /\ attempt = 3
  /\ fetches = 4
  /\ lastEvent = "failure"
  /\ sleepCause = "429"
  /\ outcome.err.class = "NetworkError"

\* The last attempt received 429 after a wait that an error caused
C28_WitnessRateLimit ==
  /\ pc = "thrown"
  /\ attempt = maxRetries
  /\ fetches = 2
  /\ lastEvent = "response"
  /\ lastStatus = 429
  /\ sleepCause = "error"
  /\ outcome.err.class = "RateLimitError"


\* C29: a 2xx response whose body is not JSON ends the call at once: the call
\* has thrown a NetworkError that wraps the decode failure and carries the
\* locally generated request id, and no wait or further attempt follows even
\* when attempts remain.
C29_DecodeFailureNotRetried ==
  (lastEvent = "response" /\ Ok(lastStatus) /\ lastBody.kind = "invalid") =>
    /\ pc = "thrown"
    /\ outcome = Thrown(NetworkError(SyntaxError, requestId))
    /\ outcome.err.requestId = generateRequestId(idCounter)

\* The first of four possible attempts got a 2xx with an undecodable body and
\* a server request id; the call is over after one fetch
C29_Witness ==
  /\ pc = "thrown"
  /\ maxRetries = 3
  /\ attempt = 0
  /\ fetches = 1
  /\ lastEvent = "response"
  /\ lastStatus = 200
  /\ lastBody.kind = "invalid"
  /\ lastXRequestId = "srv_1"
  /\ outcome.err.class = "NetworkError"
  /\ outcome.err.requestId = requestId


\* The configuration of a client whose HttpClient holds the given retry count
ConfigWithMaxRetries(n) ==
  [ apiKey |-> SomeKey(<< "k" >>), baseURL |-> NoUrl, timeout |-> None,
    maxRetries |-> Some(n) ]

\* C30: a client configured with a negative maxRetries is constructed without
\* error and hands that count to its HttpClient; every call on it throws a
\* NetworkError "Network request failed" with no cause and sends no request.
C30_NegativeMaxRetries ==
  maxRetries < 0 =>
    /\ ~BlankKey(ConfigWithMaxRetries(maxRetries).apiKey)
    /\ HttpClientOf(ResolvedConfig(ConfigWithMaxRetries(maxRetries))).maxRetries
         = maxRetries
    /\ fetches = 0
    /\ pc \in { "idle", "thrown" }
    /\ pc = "thrown" =>
         /\ outcome.kind = "error"
         /\ outcome.err.class = "NetworkError"
         /\ outcome.err.message = "Network request failed"
         /\ outcome.err.cause = NoCause
         /\ outcome.err.requestId = requestId

\* A call on a client with maxRetries -1 has thrown without any fetch
C30_Witness ==
  /\ maxRetries = -1
  /\ pc = "thrown"
  /\ fetches = 0
  /\ outcome.err.class = "NetworkError"
  /\ outcome.err.message = "Network request failed"

\* The constructor accepts a negative maxRetries as it is given
C30_ConstructorAccepts ==
  (sdk.phase # "new" /\ inputConfig.maxRetries = Some(-1)
     /\ ~BlankKey(inputConfig.apiKey)) =>
    /\ sdk.phase = "constructed"
    /\ sdk.built.maxRetries = -1
    /\ sdk.http.maxRetries = -1


----------------------------------------------------------------------------
(* State machine of a scan, proxy-header or wrapper call *)

InitProxy ==
  /\ apiKey = DefaultApiKey
  /\ optHeaders = EmptyHeaders
  /\ maxRetries = DEFAULT_MAX_RETRIES
  /\ timeout = DEFAULT_TIMEOUT
  /\ inputConfig = NoLockLLMConfig
  /\ parse = NoParse
  /\ proxy = NoProxy
  /\ InitCall

\* scanClient.scan(request, options) reaches this.http.post
ScanCall ==
  /\ proxy.fn = "none"
  /\ \E request \in ScanRequests, options \in ScanOptionSets :
       proxy' = [ proxy EXCEPT !.fn = "scan", !.request = request,
                               !.scanOptions = options,
                               !.posted = scan(request, options) ]
  /\ UNCHANGED << transport, clientVars, parse >>

\* buildLockLLMHeaders(options) returns
BuildHeadersCall ==
  /\ proxy.fn = "none"
  /\ \E options \in ProxyOptionSets :
       proxy' = [ proxy EXCEPT !.fn = "buildLockLLMHeaders", !.options = options,
                               !.headers = buildLockLLMHeaders(options) ]
  /\ UNCHANGED << transport, clientVars, parse >>

\* parseProxyMetadata(headers) returns
ParseMetadataCall ==
  /\ proxy.fn = "none"
  /\ \E kind \in { "Headers", "object" }, names \in SUBSET ResponseHeaderNames,
        spelling \in Spellings :
       proxy' = [ proxy EXCEPT
                    !.fn = "parseProxyMetadata",
                    !.response = Response(kind, names, spelling),
                    !.metadata = parseProxyMetadata(
                                   CollectionOf(Response(kind, names, spelling))) ]
  /\ UNCHANGED << transport, clientVars, parse >>

\* createAnthropic(config) calls the Anthropic constructor
CreateAnthropicCall ==
  /\ proxy.fn = "none"
  /\ \E config \in WrapperConfigs :
       proxy' = [ proxy EXCEPT !.fn = "createAnthropic", !.config = config,
                               !.constructed = createAnthropic(config) ]
  /\ UNCHANGED << transport, clientVars, parse >>

\* createOpenAI(config) calls the OpenAI constructor
CreateOpenAICall ==
  /\ proxy.fn = "none"
  /\ \E config \in WrapperConfigs :
       proxy' = [ proxy EXCEPT !.fn = "createOpenAI", !.config = config,
                               !.constructed = createOpenAI(config) ]
  /\ UNCHANGED << transport, clientVars, parse >>

\* createClient(provider, ClientConstructor, config) calls the constructor
CreateClientCall ==
  /\ proxy.fn = "none"
  /\ \E provider \in Providers, config \in WrapperConfigs :
       proxy' = [ proxy EXCEPT !.fn = "createClient", !.config = config,
                               !.constructed = createClient(provider, config) ]
  /\ UNCHANGED << transport, clientVars, parse >>

NextProxy ==
  \/ ScanCall
  \/ BuildHeadersCall
  \/ ParseMetadataCall
  \/ CreateAnthropicCall
  \/ CreateOpenAICall
  \/ CreateClientCall

SpecProxy == InitProxy /\ [][NextProxy]_vars

----------------------------------------------------------------------------
(* Properties of the scan, proxy-header and wrapper calls *)

\* The header each scan option is sent under
ScanOptionHeader(option) ==
  CASE option = "mode" -> "x-lockllm-scan-mode"
    [] option = "sensitivity" -> "x-lockllm-sensitivity"
    [] option = "chunk" -> "x-lockllm-chunk"
    [] option = "scanAction" -> "x-lockllm-scan-action"
    [] option = "policyAction" -> "x-lockllm-policy-action"
    [] option = "abuseAction" -> "x-lockllm-abuse-action"
    [] option = "piiAction" -> "x-lockllm-pii-action"
    [] option = "compressionAction" -> "x-lockllm-compression"
    [] option = "compressionRate" -> "x-lockllm-compression-rate"

ScanOptionNames ==
  { "mode", "sensitivity", "chunk", "scanAction", "policyAction", "abuseAction",
    "piiAction", "compressionAction", "compressionRate" }

\* The header value a scan option asks for; undefined when the option asks
\* for none
ScanOptionValue(request, options, option) ==
  CASE option = "mode" -> request.mode
    [] option = "sensitivity" -> request.sensitivity
    [] option = "chunk" ->
         IF request.chunk.def
           THEN (IF request.chunk.v THEN "true" ELSE "false") ELSE UndefStr
    [] option = "scanAction" -> options.scanAction
    [] option = "policyAction" -> options.policyAction
    [] option = "abuseAction" ->
         IF options.abuseAction = NullStr THEN UndefStr ELSE options.abuseAction
    [] option = "piiAction" ->
         IF options.piiAction = NullStr THEN UndefStr ELSE options.piiAction
    [] option = "compressionAction" ->
         IF options.compressionAction = NullStr
           THEN UndefStr ELSE options.compressionAction
    [] option = "compressionRate" ->
         IF options.compressionRate.def
           THEN TenthsString(options.compressionRate.v) ELSE UndefStr

\* The option was left out of the call
ScanOptionOmitted(request, options, option) ==
  CASE option = "mode" -> request.mode = UndefStr
    [] option = "sensitivity" -> request.sensitivity = UndefStr
    [] option = "chunk" -> ~request.chunk.def
    [] option = "scanAction" -> options.scanAction = UndefStr
    [] option = "policyAction" -> options.policyAction = UndefStr
    [] option = "abuseAction" -> options.abuseAction = UndefStr
    [] option = "piiAction" -> options.piiAction = UndefStr
    [] option = "compressionAction" -> options.compressionAction = UndefStr
    [] option = "compressionRate" -> ~options.compressionRate.def

C23_Original ==
  proxy.fn = "scan" =>
    \A option \in ScanOptionNames :
      ScanOptionValue(proxy.request, proxy.scanOptions, option) # UndefStr =>
        HeaderValue(proxy.posted.headers, ScanOptionHeader(option))
          = ScanOptionValue(proxy.request, proxy.scanOptions, option)

\* The same over the options scan() reads
C23_OptionsRead ==
  proxy.fn = "scan" =>
    \A option \in ScanOptionNames \ { "piiAction", "compressionAction",
                                      "compressionRate" } :
      ScanOptionValue(proxy.request, proxy.scanOptions, option) # UndefStr =>
        HeaderValue(proxy.posted.headers, ScanOptionHeader(option))
          = ScanOptionValue(proxy.request, proxy.scanOptions, option)

\* chunk: false is sent as "false"
C23_ChunkFalseSent ==
  /\ proxy.fn = "scan"
  /\ proxy.request.chunk = SomeBool(FALSE)
  /\ HeaderValue(proxy.posted.headers, "x-lockllm-chunk") = "false"


\* The header each proxy option is sent under
ProxyOptionHeader(option) ==
  CASE option = "scanMode" -> "x-lockllm-scan-mode"
    [] option = "scanAction" -> "x-lockllm-scan-action"
    [] option = "policyAction" -> "x-lockllm-policy-action"
    [] option = "abuseAction" -> "x-lockllm-abuse-action"
    [] option = "routeAction" -> "x-lockllm-route-action"
    [] option = "piiAction" -> "x-lockllm-pii-action"
    [] option = "cacheResponse" -> "x-lockllm-cache-response"
    [] option = "cacheTTL" -> "x-lockllm-cache-ttl"
    [] option = "compressionAction" -> "x-lockllm-compression"
    [] option = "compressionRate" -> "x-lockllm-compression-rate"

ProxyOptionNames ==
  { "scanMode", "scanAction", "policyAction", "abuseAction", "routeAction",
    "piiAction", "cacheResponse", "cacheTTL", "compressionAction",
    "compressionRate" }

\* The header value a proxy option asks for; undefined when it asks for none
ProxyOptionValue(options, option) ==
  CASE option = "scanMode" -> options.scanMode
    [] option = "scanAction" -> options.scanAction
    [] option = "policyAction" -> options.policyAction
    [] option = "abuseAction" ->
         IF options.abuseAction = NullStr THEN UndefStr ELSE options.abuseAction
    [] option = "routeAction" -> options.routeAction
    [] option = "piiAction" ->
         IF options.piiAction = NullStr THEN UndefStr ELSE options.piiAction
    [] option = "cacheResponse" ->
         IF options.cacheResponse = SomeBool(FALSE) THEN "false" ELSE UndefStr
    [] option = "cacheTTL" ->
         IF options.cacheTTL.def THEN ToString(options.cacheTTL.v) ELSE UndefStr
    [] option = "compressionAction" ->
         IF options.compressionAction = NullStr
           THEN UndefStr ELSE options.compressionAction
    [] option = "compressionRate" ->
         IF options.compressionRate.def
           THEN TenthsString(options.compressionRate.v) ELSE UndefStr

\* C24: buildLockLLMHeaders returns exactly the headers of the options that
\* are set: no header for abuseAction / piiAction null or undefined, the
\* cache-response header for cacheResponse false only, the cache-ttl header
\* for every defined cacheTTL (0 too), both compression headers for
\* { compressionAction, compressionRate }, and no other key.
C24_Original ==
  proxy.fn = "buildLockLLMHeaders" =>
    /\ \A option \in ProxyOptionNames :
         HeaderValue(proxy.headers, ProxyOptionHeader(option))
           = ProxyOptionValue(proxy.options, option)
    /\ DOMAIN proxy.headers
         \subseteq { ProxyOptionHeader(option) : option \in ProxyOptionNames }

\* The same over the options buildLockLLMHeaders reads
C24_OptionsRead ==
  proxy.fn = "buildLockLLMHeaders" =>
    /\ \A option \in ProxyOptionNames \ { "piiAction", "compressionAction",
                                          "compressionRate" } :
         HeaderValue(proxy.headers, ProxyOptionHeader(option))
           = ProxyOptionValue(proxy.options, option)
    /\ DOMAIN proxy.headers
         \subseteq { ProxyOptionHeader(option) : option \in ProxyOptionNames }

\* cacheTTL 0 is sent as "0"
C24_ZeroTTLSent ==
  /\ proxy.fn = "buildLockLLMHeaders"
  /\ proxy.options.cacheTTL = Some(0)
  /\ HeaderValue(proxy.headers, "x-lockllm-cache-ttl") = "0"

\* C25: parseProxyMetadata returns the same record however the header names
\* are spelled (lower, upper or mixed case) and whether they arrive in a
\* Headers collection or in a plain object.
C25_Original ==
  proxy.fn = "parseProxyMetadata" =>
    \A kind \in { "Headers", "object" }, spelling \in Spellings :
      parseProxyMetadata(CollectionOf(Response(kind, proxy.response.names, spelling)))
        = proxy.metadata

\* The same for the collections getHeader finds every header in: a Headers
\* collection in any spelling, a plain object in lower case
C25_HeadersOrLowerCase ==
  (/\ proxy.fn = "parseProxyMetadata"
   /\ proxy.response.kind = "Headers" \/ proxy.response.spelling = "lower") =>
    \A spelling \in Spellings :
      parseProxyMetadata(CollectionOf(Response("Headers", proxy.response.names, spelling)))
        = proxy.metadata

\* A plain object with mixed-case names yields no request id
C25_MixedCaseObjectMissed ==
  /\ proxy.fn = "parseProxyMetadata"
  /\ proxy.response.kind = "object"
  /\ proxy.response.spelling = "mixed"
  /\ "X-Request-Id" \in DOMAIN CollectionOf(proxy.response).entries
  /\ proxy.metadata.request_id = ""

\* The wrappers
WrapperFunctions == { "createAnthropic", "createOpenAI", "createClient" }

\* C27: the defaultHeaders a wrapper passes to the SDK constructor hold every
\* caller-supplied defaultHeaders entry, every header built from proxyOptions
\* and every proxyOptions.headers entry; on a clash proxyOptions.headers wins
\* over the built headers, which win over the caller's defaultHeaders.
C27_Original ==
  proxy.fn \in WrapperFunctions =>
    LET passed == proxy.constructed["defaultHeaders"]
        caller == DefaultHeadersOf(proxy.config.otherOptions)
        built == buildLockLLMHeaders(proxy.config.proxyOptions)
        extra == MapOrEmpty(proxy.config.proxyOptions.headers)
    IN  \A k \in DOMAIN caller \cup DOMAIN built \cup DOMAIN extra :
          /\ k \in DOMAIN passed
          /\ passed[k] = IF k \in DOMAIN extra THEN extra[k]
                         ELSE IF k \in DOMAIN built THEN built[k]
                         ELSE caller[k]

\* The same for a caller that supplies no defaultHeaders
C27_WithoutCallerHeaders ==
  (/\ proxy.fn \in WrapperFunctions
   /\ "defaultHeaders" \notin DOMAIN proxy.config.otherOptions) =>
    LET passed == proxy.constructed["defaultHeaders"]
        built == buildLockLLMHeaders(proxy.config.proxyOptions)
        extra == MapOrEmpty(proxy.config.proxyOptions.headers)
    IN  \A k \in DOMAIN built \cup DOMAIN extra :
          /\ k \in DOMAIN passed
          /\ passed[k] = IF k \in DOMAIN extra THEN extra[k] ELSE built[k]

\* A caller's defaultHeaders reach the constructor as they were given
C27_CallerHeadersAsGiven ==
  (/\ proxy.fn \in WrapperFunctions
   /\ "defaultHeaders" \in DOMAIN proxy.config.otherOptions) =>
    proxy.constructed["defaultHeaders"] = proxy.config.otherOptions["defaultHeaders"]

====
